---- MODULE Spec2Model ----
(***************************************************************************)
(* Verification model of the l0ss-client compression engines, the preview  *)
(* analyser (utils/preview.js) and the batch driver (app.js).              *)
(*                                                                         *)
(* The specifications share the module, one per component:                 *)
(*   SpecPreview        analyzeFile: three tier runs, effectiveness flags  *)
(*                      and the recommendation                             *)
(*   SpecEngine         the compress<Format> entry points of the eleven    *)
(*                      formats and their tier pipelines                   *)
(*   SpecRound          roundNumbers of the JSON engine on value trees     *)
(*   SpecCompressFiles  compressFiles over the selected files              *)
(*   SpecCsv            applyModerateCSVCompression on tables of text      *)
(*                      fields: rounding, delta and dictionary encoding    *)
(*   SpecNames          generateShortKey, getShortAlias, getShortName      *)
(*   SpecJson           applyMinimalCompression, applyModerateCompression  *)
(*                      of the JSON engine on value trees                  *)
(*   SpecJsonArrays     the same two on trees of nested arrays             *)
(*   SpecSql            applyModerateSQLCompression on scripts of          *)
(*                      statements, INSERT combining included              *)
(*   SpecText           applyMinimalTextCompression on texts of characters *)
(*   SpecJavaScript     applyAggressiveJSCompression on code of guarded    *)
(*                      blocks, dead-code removal included                 *)
(*   SpecPreviewText    analyzeFile on a text file, with the sizes the     *)
(*                      text engine and the analyser measure               *)
(*   SpecFlow           app.js from the preview of the first file, over    *)
(*                      the option controls and cards, to compressFiles    *)
(*   SpecJsonKeys       shortenKeys on trees that use a short code as key  *)
(*   SpecSqlAliases     the alias shortening of the SQL moderate tier      *)
(*   SpecAnalysis       overlapping runs of analyzeFirstFile               *)
(*   SpecBatch          overlapping runs of compressFiles                  *)
(***************************************************************************)
EXTENDS Integers, Sequences, FiniteSets, TLC

VARIABLES
    \* ---- utils/preview.js : analyzeFile ----
    pvPc,            \* "idle" | "awaiting" (an engine call is pending) | "returned"
    originalSize,    \* new Blob([content]).size
    engineResult,    \* what compressFunc(content, level, customOptions) yields per level
    failing,         \* the levels whose engine call throws
    levelIdx,        \* position of the for-loop over the three levels
    results,         \* results[level], filled by the loop
    previewData,     \* the value analyzeFile returns

    \* ---- compression/*.js : compress<Format> ----
    enPc,            \* "idle" | "returned" | "thrown"
    enCall,          \* the arguments and the content of the last engine call
    enOut,           \* its CompressionResult, or the error it threw

    \* ---- compression/json.js : roundNumbers ----
    rnTree,          \* the parsed JSON value the passes work on (mutated in place)
    rnDecimals,      \* the precision argument
    rnPasses,        \* the count returned by each pass so far
    rnAfterFirst,    \* the tree as the first pass left it

    \* ---- app.js : compressFiles ----
    selectedFiles,
    compressionLevel,
    compressionResults,
    cfPc,            \* "idle" | "reading" (await file.text()) | "compressing" (await compressFunc) | "shown"
    cfI,             \* the loop index i
    cfFile,          \* the file the pending await belongs to

    \* ---- compression/csv.js : applyModerateCSVCompression ----
    csPc,            \* "idle" | "returned"
    csHeader,        \* the header line, split into its fields
    csLines,         \* the data lines, each split into its fields
    csOptions,       \* customOptions: for every gate, whether the key is !== false
    csOut,           \* the locals of the call when it returns

    \* ---- generateShortKey, getShortAlias, getShortName ----
    nmPc,            \* "idle" | "returned"
    nmIndex,         \* the index argument
    nmOut,           \* the function called and the name it returned

    \* ---- compression/json.js : the tree rewrites of the JSON tiers ----
    jsPc,            \* "idle" | "returned"
    jsData,          \* the parsed value the call receives
    jsOptions,       \* customOptions: for every gate, whether the key is !== false
    jsOut,           \* the value as the call leaves it, and what the call logged

    \* ---- compression/sql.js : combining INSERT statements ----
    sqPc,            \* "idle" | "returned"
    sqContent,       \* the script, as the sequence of its lexical tokens
    sqOptions,       \* customOptions
    sqOut,           \* the statements and operations after the step

    \* ---- compression/text.js : applyMinimalTextCompression ----
    txPc,            \* "idle" | "returned"
    txContent,       \* the text, as the sequence of its characters
    txOptions,       \* customOptions
    txOut,           \* the text and the operations the call leaves

    \* ---- compression/javascript.js : applyAggressiveJSCompression ----
    jcPc,            \* "idle" | "returned"
    jcContent,       \* the code, as the sequence of its lexical tokens
    jcOptions,       \* customOptions
    jcOut,           \* the code and the operations the call leaves

    \* ---- utils/preview.js : analyzeFile on a text file ----
    ptContent,       \* the content analyzeFile received, as the sequence of its characters

    \* ---- app.js : from the preview of the first file to compressFiles ----
    flPc,            \* "idle" | "preview" | "shown"
    flFile,          \* selectedFiles[0]: its type and what the engine's steps find in its text
    flCustomOptions, \* customOptions
    flLevel,         \* compressionLevel
    flPreview,       \* previewData
    flTouched,       \* whether an option control was used since the preview was displayed
    flResult,        \* compressionResults[0]

    \* ---- app.js : overlapping runs of analyzeFirstFile ----
    azSelected,      \* selectedFiles
    azIndex,         \* currentFileIndex
    azType,          \* currentFileType
    azContent,       \* currentFileContent: the file whose text it is, or ""
    azRuns,          \* the runs of analyzeFirstFile started so far

    \* ---- app.js : overlapping runs of compressFiles ----
    btSelected,      \* selectedFiles
    btLevel,         \* compressionLevel
    btResults,       \* compressionResults
    btRuns           \* the runs of compressFiles started so far: [pc, i, file]

pvVars == <<pvPc, originalSize, engineResult, failing, levelIdx, results, previewData>>
enVars == <<enPc, enCall, enOut>>
rnVars == <<rnTree, rnDecimals, rnPasses, rnAfterFirst>>
cfVars == <<selectedFiles, compressionLevel, compressionResults, cfPc, cfI, cfFile>>
csVars == <<csPc, csHeader, csLines, csOptions, csOut>>
nmVars == <<nmPc, nmIndex, nmOut>>
jsVars == <<jsPc, jsData, jsOptions, jsOut>>
sqVars == <<sqPc, sqContent, sqOptions, sqOut>>
txVars == <<txPc, txContent, txOptions, txOut>>
jcVars == <<jcPc, jcContent, jcOptions, jcOut>>
ptVars == <<ptContent>>
flVars == <<flPc, flFile, flCustomOptions, flLevel, flPreview, flTouched, flResult>>
azVars == <<azSelected, azIndex, azType, azContent, azRuns>>
btVars == <<btSelected, btLevel, btResults, btRuns>>
extVars == <<csVars, nmVars, jsVars, sqVars, txVars, jcVars, ptVars, flVars, azVars, btVars>>
coreVars == <<pvVars, enVars, rnVars, cfVars>>
vars == <<pvVars, enVars, rnVars, cfVars, extVars>>

None == "none"

(***************************************************************************)
(* Shared helpers                                                          *)
(***************************************************************************)
Levels == <<"minimal", "moderate", "aggressive">>
LevelSet == {Levels[i] : i \in 1..Len(Levels)}

IsPrefix(s, t) == Len(s) <= Len(t) /\ SubSeq(t, 1, Len(s)) = s

(***************************************************************************)
(* utils/preview.js : analyzeFile                                          *)
(*                                                                         *)
(* The reduction percentage (originalSize - compressedSize) / originalSize *)
(* * 100 is a double in the code.  It is kept here as the exact fraction   *)
(* num/den; every comparison the code makes is against an integer          *)
(* threshold and is decided by cross-multiplication.  A zero originalSize  *)
(* gives NaN or -Infinity in the code: both compare false with ">".        *)
(***************************************************************************)
OriginalSizes == {0, 40, 100}
CompressedSizes == {29, 49, 69, 89, 94, 95, 97, 110}
EngineErrorMessage == "engine failure"

Reduction(orig, comp) == [num |-> (orig - comp) * 100, den |-> orig]
ZeroReduction == [num |-> 0, den |-> 1]

\* reduction > threshold, as the double comparison decides it
GreaterThan(r, threshold) == r.den > 0 /\ r.num > threshold * r.den

\* try-branch of the loop body: the entry built from a CompressionResult
SuccessEntry(orig, res) ==
    [size |-> res.compressedSize,
     reduction |-> Reduction(orig, res.compressedSize),
     operations |-> res.operations,
     compressed |-> res.compressed]

\* catch-branch of the loop body
FailureEntry(orig, message) ==
    [size |-> orig,
     reduction |-> ZeroReduction,
     operations |-> <<>>,
     error |-> message]

\* variant: one try/catch around the whole loop, so any failure fails every level
LevelEntry_sharedCatch(orig, level, engine, fails) ==
    IF fails # {}
    THEN FailureEntry(orig, EngineErrorMessage)
    ELSE SuccessEntry(orig, engine[level])

\* one iteration of the for-loop: try the engine, catch its failure
LevelEntry(orig, level, engine, fails) ==
    IF level \in fails
    THEN FailureEntry(orig, EngineErrorMessage)
    ELSE SuccessEntry(orig, engine[level])

EffectiveThreshold == 5

\* variant: the threshold taken inclusively
effectiveLevels_inclusive(res) ==
    [l \in LevelSet |->
        \/ GreaterThan(res[l].reduction, EffectiveThreshold)
        \/ /\ res[l].reduction.den > 0
           /\ res[l].reduction.num = EffectiveThreshold * res[l].reduction.den]

effectiveLevels(res) ==
    [l \in LevelSet |-> GreaterThan(res[l].reduction, EffectiveThreshold)]

\* variant: the fallback is the lowest level instead of moderate
recommendedLevel_fallbackMinimal(res) ==
    LET eff == effectiveLevels(res) IN
    IF GreaterThan(res["aggressive"].reduction, 50) /\ eff["aggressive"]
    THEN "aggressive"
    ELSE IF GreaterThan(res["moderate"].reduction, 30) /\ eff["moderate"]
    THEN "moderate"
    ELSE "minimal"

recommendedLevel(res) ==
    LET eff == effectiveLevels(res) IN
    IF GreaterThan(res["aggressive"].reduction, 50) /\ eff["aggressive"]
    THEN "aggressive"
    ELSE IF GreaterThan(res["moderate"].reduction, 30) /\ eff["moderate"]
    THEN "moderate"
    ELSE IF eff["minimal"]
    THEN "minimal"
    ELSE "moderate"

LimitedReason == "Limited compression opportunity for this file"

getRecommendationReason(res, level) ==
    LET r == res[level].reduction IN
    IF GreaterThan(r, 70) THEN <<level, "excellent", r>>
    ELSE IF GreaterThan(r, 50) THEN <<level, "strong", r>>
    ELSE IF GreaterThan(r, 30) THEN <<level, "balanced", r>>
    ELSE IF GreaterThan(r, 10) THEN <<level, "modest", r>>
    ELSE LimitedReason

PreviewResult(orig, res) ==
    [originalSize |-> orig,
     results |-> res,
     recommendation |->
        [level |-> recommendedLevel(res),
         effectiveLevels |-> effectiveLevels(res),
         reason |-> getRecommendationReason(res, recommendedLevel(res))]]

EngineResults ==
    [LevelSet -> [compressedSize : CompressedSizes,
                  operations : {<<>>},
                  compressed : {"text"}]]

WithOperations(engine) ==
    [l \in LevelSet |-> [engine[l] EXCEPT !.operations = <<"op_" \o l>>,
                                          !.compressed = "text_" \o l]]

PreviewIdle ==
    /\ pvPc = "idle"
    /\ originalSize = 0
    /\ engineResult = None
    /\ failing = {}
    /\ levelIdx = 0
    /\ results = <<>>
    /\ previewData = None

\* analyzeFile is entered: originalSize is measured and the first engine call is awaited
AnalyzeFileCall ==
    /\ pvPc = "idle"
    /\ \E orig \in OriginalSizes, eng \in EngineResults, hasOps \in BOOLEAN,
          fails \in SUBSET LevelSet :
          /\ originalSize' = orig
          /\ engineResult' = IF hasOps THEN WithOperations(eng) ELSE eng
          /\ failing' = fails
    /\ results' = <<>>
    /\ levelIdx' = 1
    /\ previewData' = None
    /\ pvPc' = "awaiting"
    /\ UNCHANGED <<enVars, rnVars, cfVars, extVars>>

\* the awaited engine call of the current level settles; after the third
\* level the flags and the recommendation are computed and the result returned
AnalyzeFileLevel ==
    /\ pvPc = "awaiting"
    /\ LET level == Levels[levelIdx]
           res == (level :> LevelEntry(originalSize, level, engineResult, failing)) @@ results
       IN  /\ results' = res
           /\ IF levelIdx < Len(Levels)
              THEN /\ levelIdx' = levelIdx + 1
                   /\ pvPc' = "awaiting"
                   /\ previewData' = None
              ELSE /\ levelIdx' = levelIdx
                   /\ pvPc' = "returned"
                   /\ previewData' = PreviewResult(originalSize, res)
    /\ UNCHANGED <<originalSize, engineResult, failing>>
    /\ UNCHANGED <<enVars, rnVars, cfVars, extVars>>


EngineIdle ==
    /\ enPc = "idle"
    /\ enCall = None
    /\ enOut = None

RoundIdle ==
    /\ rnTree = None
    /\ rnDecimals = 0
    /\ rnPasses = <<>>
    /\ rnAfterFirst = None

CompressIdle ==
    /\ selectedFiles = <<>>
    /\ compressionLevel = "moderate"
    /\ compressionResults = <<>>
    /\ cfPc = "idle"
    /\ cfI = 0
    /\ cfFile = None

CsvIdle ==
    /\ csPc = "idle"
    /\ csHeader = <<>>
    /\ csLines = <<>>
    /\ csOptions = None
    /\ csOut = None

NamesIdle == nmPc = "idle" /\ nmIndex = 0 /\ nmOut = None
JsonIdle == jsPc = "idle" /\ jsData = None /\ jsOptions = None /\ jsOut = None
SqlIdle == sqPc = "idle" /\ sqContent = <<>> /\ sqOptions = None /\ sqOut = None

TextIdle ==
    /\ txPc = "idle"
    /\ txContent = <<>>
    /\ txOptions = None
    /\ txOut = None

JavaScriptIdle ==
    /\ jcPc = "idle"
    /\ jcContent = <<>>
    /\ jcOptions = None
    /\ jcOut = None

PreviewTextIdle ==
    /\ ptContent = <<>>

FlowIdle ==
    /\ flPc = "idle"
    /\ flFile = None
    /\ flCustomOptions = <<>>
    /\ flLevel = "moderate"
    /\ flPreview = None
    /\ flTouched = FALSE
    /\ flResult = None

AnalysisIdle ==
    /\ azSelected = <<>>
    /\ azIndex = 0
    /\ azType = ""
    /\ azContent = ""
    /\ azRuns = <<>>

BatchIdle ==
    /\ btSelected = <<>>
    /\ btLevel = "moderate"
    /\ btResults = <<>>
    /\ btRuns = <<>>

\* every component but the named one has not been called
IdleBut(component) ==
    /\ PreviewIdle /\ EngineIdle /\ RoundIdle /\ CompressIdle
    /\ IF component = "csv" THEN TRUE ELSE CsvIdle
    /\ IF component = "names" THEN TRUE ELSE NamesIdle
    /\ IF component = "json" THEN TRUE ELSE JsonIdle
    /\ IF component = "sql" THEN TRUE ELSE SqlIdle
    /\ IF component = "text" THEN TRUE ELSE TextIdle
    /\ IF component = "javascript" THEN TRUE ELSE JavaScriptIdle
    /\ IF component = "previewText" THEN TRUE ELSE PreviewTextIdle
    /\ IF component = "flow" THEN TRUE ELSE FlowIdle
    /\ IF component = "analysis" THEN TRUE ELSE AnalysisIdle
    /\ IF component = "batch" THEN TRUE ELSE BatchIdle

\* a step of the named component leaves the others as they are
ExtFrame(component) ==
    /\ IF component = "csv" THEN TRUE ELSE UNCHANGED csVars
    /\ IF component = "names" THEN TRUE ELSE UNCHANGED nmVars
    /\ IF component = "json" THEN TRUE ELSE UNCHANGED jsVars
    /\ IF component = "sql" THEN TRUE ELSE UNCHANGED sqVars
    /\ IF component = "text" THEN TRUE ELSE UNCHANGED txVars
    /\ IF component = "javascript" THEN TRUE ELSE UNCHANGED jcVars
    /\ IF component = "previewText" THEN TRUE ELSE UNCHANGED ptVars
    /\ IF component = "flow" THEN TRUE ELSE UNCHANGED flVars
    /\ IF component = "analysis" THEN TRUE ELSE UNCHANGED azVars
    /\ IF component = "batch" THEN TRUE ELSE UNCHANGED btVars

Frame(component) == UNCHANGED coreVars /\ ExtFrame(component)

ExtIdle ==
    /\ CsvIdle /\ NamesIdle /\ JsonIdle /\ SqlIdle /\ TextIdle /\ JavaScriptIdle
    /\ PreviewTextIdle /\ FlowIdle /\ AnalysisIdle /\ BatchIdle

InitPreview == ExtIdle /\ PreviewIdle /\ EngineIdle /\ RoundIdle /\ CompressIdle
NextPreview == AnalyzeFileCall \/ AnalyzeFileLevel
SpecPreview == InitPreview /\ [][NextPreview]_vars

(***************************************************************************)
(* Properties of analyzeFile                                               *)
(***************************************************************************)
Returned == pvPc = "returned"

\* the percentage of a returned entry exceeds t, computed from the sizes
ExceedsPercent(level, t) ==
    LET orig == previewData.originalSize
        size == previewData.results[level].size
    IN  orig > 0 /\ (orig - size) * 100 > t * orig

\* C1: the recommended level is aggressive when the aggressive reduction is
\* above 50, otherwise moderate when the moderate reduction is above 30,
\* otherwise minimal when minimal is effective, otherwise moderate; with no
\* tier above 5 it is moderate and no level is effective.
C1_RecommendationPolicy ==
    Returned =>
        LET rec == previewData.recommendation IN
        /\ ExceedsPercent("aggressive", 50) => rec.level = "aggressive"
        /\ (~ExceedsPercent("aggressive", 50) /\ ExceedsPercent("moderate", 30))
              => rec.level = "moderate"
        /\ (~ExceedsPercent("aggressive", 50) /\ ~ExceedsPercent("moderate", 30)
               /\ rec.effectiveLevels["minimal"])
              => rec.level = "minimal"
        /\ (~ExceedsPercent("aggressive", 50) /\ ~ExceedsPercent("moderate", 30)
               /\ ~rec.effectiveLevels["minimal"])
              => rec.level = "moderate"
        /\ (\A l \in LevelSet : ~ExceedsPercent(l, 5))
              => /\ rec.level = "moderate"
                 /\ \A l \in LevelSet : ~rec.effectiveLevels[l]
                 /\ rec.reason = LimitedReason

\* a preview whose best tier reaches 3% : the default is taken
C1_Witness ==
    /\ Returned
    /\ failing = {}
    /\ previewData.originalSize = 100
    /\ \A l \in LevelSet : previewData.results[l].size = 97
    /\ previewData.recommendation.level = "moderate"

\* C2: whatever subset of the tiers fails, analyzeFile returns an entry for
\* each tier; a failing tier has reduction 0, no operations and the error
\* message, and every other tier has the entry it has when nothing fails.
C2_TierFailuresIsolated ==
    Returned =>
        /\ DOMAIN previewData.results = LevelSet
        /\ \A l \in LevelSet :
              IF l \in failing
              THEN /\ previewData.results[l].reduction = ZeroReduction
                   /\ previewData.results[l].operations = <<>>
                   /\ previewData.results[l].error = EngineErrorMessage
              ELSE previewData.results[l] =
                      [size |-> engineResult[l].compressedSize,
                       reduction |-> Reduction(originalSize, engineResult[l].compressedSize),
                       operations |-> engineResult[l].operations,
                       compressed |-> engineResult[l].compressed]

\* minimal fails, the two later tiers still report their own figures
C2_Witness ==
    /\ Returned
    /\ failing = {"minimal"}
    /\ originalSize = 100
    /\ previewData.results["minimal"].operations = <<>>
    /\ previewData.results["moderate"].operations # <<>>
    /\ previewData.results["aggressive"].size = 29

\* C9: a tier is effective exactly when its reduction is strictly above 5;
\* a reduction of exactly 5.0 is ineffective.
C9_EffectiveIffAboveFive ==
    Returned =>
        \A l \in LevelSet :
            LET orig == previewData.originalSize
                size == previewData.results[l].size
            IN  /\ previewData.recommendation.effectiveLevels[l]
                     <=> (orig > 0 /\ (orig - size) * 100 > 5 * orig)
                /\ (orig > 0 /\ (orig - size) * 100 = 5 * orig)
                     => ~previewData.recommendation.effectiveLevels[l]

\* 95 of 100 bytes left is exactly 5.0% and is not effective, 94 is
C9_Witness ==
    /\ Returned
    /\ failing = {}
    /\ previewData.originalSize = 100
    /\ previewData.results["minimal"].size = 95
    /\ ~previewData.recommendation.effectiveLevels["minimal"]
    /\ previewData.results["moderate"].size = 94
    /\ previewData.recommendation.effectiveLevels["moderate"]


(***************************************************************************)
(* compression/*.js : the engines of the eleven formats                    *)
(*                                                                         *)
(* Every engine is a chain of rewrite steps.  A step is described by       *)
(*   type  the operation type it logs                                      *)
(*   need  option keys that must be truthy for the step to run             *)
(*           (if (customOptions.k))                                        *)
(*   veto  option keys that switch the step off when they are false        *)
(*           (if (customOptions.k !== false))                              *)
(*   log   when the step pushes its operation:                             *)
(*           "shorter"  the text got shorter (after.length < before)       *)
(*           "count"    the step's own counter is above zero               *)
(*           "always"   unconditionally once the step is reached           *)
(*           "never"    the rewrite has no operations.push                 *)
(*   cnt   the count the pushed operation carries (0 where the code        *)
(*         writes count: 0, otherwise 1 for any positive count)            *)
(*   outs  what the rewrite can do to a text, by the regular expressions   *)
(*         and replacements of the step:                                   *)
(*           "none"    nothing matches, the text is unchanged              *)
(*           "shrink"  the text changes and gets shorter                   *)
(*           "same"    the text changes and keeps its length               *)
(*           "grow"    the text changes and gets longer                    *)
(*           "hit"     the step's counter is positive although the text    *)
(*                     is left as it was                                   *)
(*           "throw"   the step raises a TypeError                         *)
(* The text itself is kept as its length plus the list of the rewrites     *)
(* that changed it; which outcome each step has on a given text is part    *)
(* of the input of a call.                                                 *)
(***************************************************************************)
St(type, need, veto, log, cnt, outs) ==
    [type |-> type, need |-> need, veto |-> veto, log |-> log, cnt |-> cnt, outs |-> outs]

Del == {"none", "shrink"}                 \* deletions and strictly shortening replacements
Norm == {"none", "same", "shrink"}        \* normalisations that may keep the length
Resize == {"none", "same", "shrink", "grow"}

\* ---- JSON (json.js) ----
MinimalJSON == <<
    St("remove_nulls", {}, {"removeNulls"}, "count", 1, Del),
    St("remove_empty", {}, {}, "count", 1, Del),
    St("trim_strings", {}, {}, "count", 1, Del) >>
ModerateJSON == <<
    \* keyMap holds every key of the tree, replaced or not
    St("shorten_keys", {}, {"shortenKeys"}, "count", 1, {"none", "hit", "shrink"}),
    \* counts every non-integer number, rounded or not
    St("round_numbers", {}, {}, "count", 1, {"none", "hit", "shrink"}),
    St("deduplicate_arrays", {}, {}, "count", 1, Del) >>
AggressiveJSON == <<
    \* 100 characters plus "..." replace a string of 101 or more
    St("truncate_strings", {}, {"truncateStrings"}, "count", 1, Resize),
    \* an object is replaced by the string [Flattened]
    St("flatten_nesting", {"flattenNesting"}, {}, "count", 1, Resize),
    St("round_to_integers", {}, {}, "count", 1, Del) >>

\* ---- CSV (csv.js) ----
MinimalCSV == <<
    St("remove_empty_rows", {}, {"removeEmptyRows"}, "count", 1, Del),
    St("trim_fields", {}, {}, "count", 1, Del) >>
ModerateCSV == <<
    St("deduplicate_rows", {}, {"deduplicateRows"}, "count", 1, Del),
    \* every field parseFloat accepts is counted and rewritten with toFixed(2)
    St("round_numbers", {}, {"roundNumbers"}, "count", 1,
       {"none", "hit", "same", "shrink", "grow"}),
    St("delta_encoding", {}, {"deltaEncoding"}, "count", 1, {"none", "shrink", "grow"}),
    St("dictionary_encoding", {}, {"dictionaryEncoding"}, "count", 1, {"none", "shrink", "grow"}),
    St("remove_low_variance_columns", {}, {"removeLowVarianceColumns"}, "count", 1, Del),
    St("truncate_long_text", {}, {"truncateText"}, "count", 1, Resize) >>
AggressiveCSV == <<
    St("keep_first_n_columns", {"keepFirstNColumns"}, {}, "count", 1, Del),
    St("sample_rows", {"sampleRows"}, {}, "shorter", 1, Del),
    \* dataLines[0].split fails when no data row is left
    St("remove_non_essential_columns",
       {"removeNonEssentialColumns", "essentialColumnIndices"}, {}, "always", 1,
       {"none", "same", "shrink", "grow", "throw"}),
    St("remove_outliers", {"removeOutliers"}, {}, "count", 1, Del),
    \* pushed inside the branch taken for more than 100 rows, which always drops rows
    St("statistical_sampling", {"statisticalSampling"}, {}, "count", 1, Del) >>

\* ---- JavaScript (javascript.js) ----
MinimalJavaScript == <<
    St("remove_single_line_comments", {}, {"removeComments"}, "shorter", 1, Del),
    St("remove_multi_line_comments", {}, {"removeComments"}, "shorter", 1, Del),
    St("remove_whitespace", {}, {}, "shorter", 1, Norm) >>
ModerateJavaScript == <<
    St("remove_console", {}, {"removeConsole"}, "shorter", 1, Del),
    St("remove_debugger", {}, {}, "shorter", 1, Del),
    \* "if(" is rewritten to "if ("
    St("enhanced_whitespace_removal", {}, {}, "shorter", 1, {"none", "shrink", "grow"}),
    St("optimize_semicolons", {}, {}, "shorter", 1, Del),
    St("shorten_boolean_literals", {}, {}, "shorter", 1, Del),
    St("optimize_number_literals", {}, {}, "shorter", 1, Del),
    St("shorten_common_patterns", {}, {}, "shorter", 1, Del) >>
AggressiveJavaScript == <<
    St("mangle_variable_names", {"mangleNames"}, {}, "count", 1, Del),
    St("remove_dead_code", {"removeDeadCode"}, {}, "shorter", 1, Del) >>

\* ---- HTML (html-css.js) ----
MinimalHTML == <<
    St("remove_html_comments", {}, {"removeComments"}, "shorter", 1, Del),
    St("remove_whitespace", {}, {}, "shorter", 1, Del) >>
ModerateHTML == <<
    \* <!doctype html> becomes <!DOCTYPE html>
    St("normalize_doctype", {}, {}, "shorter", 1, Norm),
    St("remove_default_type_attributes", {}, {}, "shorter", 1, Del),
    St("collapse_boolean_attributes", {}, {}, "shorter", 1, Del),
    St("remove_default_attributes", {}, {}, "shorter", 1, Del),
    St("remove_optional_quotes", {}, {}, "shorter", 1, Del),
    St("remove_optional_closing_tags", {}, {}, "shorter", 1, Del) >>
AggressiveHTML == <<
    St("remove_meta_tags", {"removeMetadata"}, {}, "shorter", 1, Del),
    St("remove_analytics_scripts", {"removeAnalytics"}, {}, "shorter", 1, Del),
    \* no rewrite at all, the operation is pushed with count: 0
    St("inline_styles", {"inlineStyles"}, {}, "always", 0, {"none"}) >>

\* ---- CSS (html-css.js) ----
MinimalCSS == <<
    St("remove_css_comments", {}, {"removeComments"}, "shorter", 1, Del),
    St("remove_whitespace", {}, {}, "shorter", 1, Norm) >>
ModerateCSS == <<
    St("shorten_color_codes", {}, {}, "shorter", 1, Del),
    St("remove_zero_units", {}, {}, "shorter", 1, Del),
    St("merge_duplicate_properties", {}, {}, "shorter", 1, Del),
    St("shorten_repeated_values", {}, {}, "shorter", 1, Del),
    St("merge_identical_selectors", {}, {}, "shorter", 1, Del),
    St("remove_duplicate_properties", {}, {}, "shorter", 1, Del) >>
AggressiveCSS == <<
    St("remove_unused_css", {"removeUnused"}, {}, "always", 0, {"none"}),
    St("merge_duplicate_selectors", {"mergeDuplicates"}, {}, "always", 0, {"none"}) >>

\* ---- SQL (sql.js) ----
MinimalSQL == <<
    St("remove_comments", {}, {"removeComments"}, "shorter", 1, Del),
    St("remove_whitespace", {}, {}, "shorter", 1, Norm) >>
ModerateSQL == <<
    \* a keyword and its lower-case form have the same length
    St("lowercase_keywords", {}, {}, "shorter", 1, {"none", "same"}),
    St("remove_explain", {}, {"removeExplain"}, "shorter", 1, Del),
    St("shorten_aliases", {}, {"shortenAliases"}, "count", 1, Del),
    St("remove_optional_keywords", {}, {"removeOptionalKeywords"}, "shorter", 1, Del),
    St("combine_insert_statements", {}, {"combineInserts"}, "count", 1, Del) >>
AggressiveSQL == <<
    St("remove_schema_changes", {}, {"removeSchemaChanges"}, "shorter", 1, Del),
    St("keep_data_statements_only", {"keepDataOnly"}, {}, "count", 1, Del),
    St("remove_transactions", {}, {"removeTransactions"}, "shorter", 1, Del),
    St("remove_constraints", {"removeConstraints"}, {}, "shorter", 1, Del),
    St("sample_insert_rows", {"sampleInserts"}, {}, "shorter", 1, Del) >>


\* ---- SVG (xml-yaml.js) ----
MinimalSVG == <<
    St("remove_xml_declaration", {}, {}, "shorter", 1, Del),
    St("remove_comments", {}, {"removeComments"}, "shorter", 1, Del),
    St("remove_metadata", {}, {"removeMetadata"}, "shorter", 1, Del),
    St("remove_doctype", {}, {}, "shorter", 1, Del),
    St("remove_whitespace", {}, {}, "shorter", 1, Del) >>
ModerateSVG == <<
    St("remove_empty_groups", {}, {}, "shorter", 1, Del),
    St("optimize_viewbox", {}, {}, "shorter", 1, Del),
    St("remove_hidden_elements", {}, {"removeHidden"}, "shorter", 1, Del),
    \* a line break inside a tag becomes a blank
    St("cleanup_attributes", {}, {}, "shorter", 1, Norm),
    St("remove_empty_attributes", {}, {}, "shorter", 1, Del),
    St("collapse_groups", {}, {"collapseGroups"}, "shorter", 1, Del),
    St("convert_ellipse_to_circle", {}, {"convertEllipseToCircle"}, "shorter", 1, Del),
    St("remove_useless_stroke_fill", {}, {"removeUselessStrokeAndFill"}, "shorter", 1, Del),
    \* sortAttributes returns its argument
    St("sort_attributes", {}, {"sortAttrs"}, "shorter", 1, {"none"}),
    St("remove_default_attributes", {}, {"removeDefaults"}, "shorter", 1, Del),
    St("optimize_path_data", {}, {"optimizePaths"}, "shorter", 1, Del),
    St("round_coordinates", {}, {"roundNumbers"}, "shorter", 1, Del),
    \* "white" -> "#fff", "blue" -> "#00f", "red" -> "#f00"
    St("shorten_colors", {}, {"shortenColors"}, "shorter", 1, Resize),
    St("remove_unused_namespaces", {}, {}, "shorter", 1, Del) >>
AggressiveSVG == <<
    St("simplify_paths", {"simplifyPaths"}, {}, "shorter", 1, Del),
    St("remove_descriptions", {}, {"removeDescriptions"}, "shorter", 1, Del),
    St("remove_unused_ids", {"removeUnusedIds"}, {}, "shorter", 1, Del),
    St("simplify_transforms", {"simplifyTransforms"}, {}, "shorter", 1, Del) >>

\* ---- XML (xml-yaml.js) ----
MinimalXML == <<
    St("remove_comments", {}, {"removeComments"}, "shorter", 1, Del),
    St("remove_whitespace", {}, {"removeWhitespace"}, "shorter", 1, Del) >>
ModerateXML == <<
    St("remove_xml_declaration", {}, {}, "shorter", 1, Del),
    St("remove_doctype", {}, {}, "shorter", 1, Del),
    St("remove_cdata", {}, {"removeCDATA"}, "shorter", 1, Del),
    St("remove_empty_elements", {}, {"removeEmpty"}, "shorter", 1, Del),
    St("collapse_boolean_attributes", {}, {}, "shorter", 1, Del),
    St("remove_attribute_quotes", {}, {"removeQuotes"}, "shorter", 1, Del),
    St("round_numeric_values", {}, {"roundNumbers"}, "shorter", 1, Del),
    St("remove_optional_attributes", {"removeOptionalAttrs"}, {}, "shorter", 1, Del) >>
AggressiveXML == <<
    \* a self-closing <name/> enters tagMap but matches no replacement
    St("shorten_tag_names", {"shortenTags"}, {}, "count", 1, {"none", "hit", "shrink"}) >>

\* ---- YAML (xml-yaml.js) ----
MinimalYAML == <<
    St("remove_comments", {}, {"removeComments"}, "shorter", 1, Del),
    St("remove_extra_blank_lines", {}, {}, "shorter", 1, Del),
    St("remove_trailing_whitespace", {}, {}, "shorter", 1, Del) >>
ModerateYAML == <<
    St("remove_document_markers", {}, {}, "shorter", 1, Del),
    St("inline_short_strings", {}, {"inlineStrings"}, "shorter", 1, Norm),
    St("remove_unnecessary_quotes", {}, {"removeQuotes"}, "shorter", 1, Del),
    St("shorten_null_values", {}, {}, "shorter", 1, Del),
    \* ":  true" comes back as ": true"; nothing is pushed for it
    St("normalize_booleans", {}, {}, "never", 1, {"none", "shrink", "grow"}),
    St("convert_to_flow_style", {"useFlowStyle"}, {}, "always", 1, Norm) >>
AggressiveYAML == <<
    St("shorten_keys", {"shortenKeys"}, {}, "count", 1, Del) >>

\* ---- Text and Markdown (text.js) ----
MinimalText == <<
    St("remove_extra_blank_lines", {}, {"removeExtraWhitespace"}, "shorter", 1, Del),
    St("remove_trailing_whitespace", {}, {}, "shorter", 1, Del),
    \* \r\n -> \n; nothing is pushed for it
    St("normalize_line_endings", {}, {}, "never", 1, Del) >>
ModerateText == <<
    \* a reference used several times is expanded at every use
    St("markdown_simplify_links", {}, {"simplifyLinks"}, "shorter", 1, {"none", "shrink", "grow"}),
    St("markdown_remove_html_comments", {}, {}, "shorter", 1, Del),
    St("markdown_simplify_headers", {}, {"simplifyHeaders"}, "shorter", 1, Del),
    St("markdown_clean_code_blocks", {}, {"cleanCodeBlocks"}, "shorter", 1, Del),
    St("markdown_shorten_alt_text", {"shortenAltText"}, {}, "shorter", 1, Del),
    St("deduplicate_sentences", {"deduplicateSentences"}, {}, "count", 1, Del),
    St("normalize_spaces", {}, {}, "shorter", 1, Del) >>
AggressiveText == <<
    \* maxLength characters plus "..." replace a longer text
    St("truncate_text", {"truncate", "maxLength"}, {}, "count", 1, Resize),
    St("remove_filler_words", {"removeFillers"}, {}, "shorter", 1, Del) >>


\* the three tiers of every engine, as the steps each apply* function adds
Formats == {"JSON", "CSV", "JavaScript", "HTML", "CSS", "SQL", "SVG", "XML", "YAML", "Text",
            "Markdown"}

MinimalSteps(format) ==
    CASE format = "JSON" -> MinimalJSON
      [] format = "CSV" -> MinimalCSV
      [] format = "JavaScript" -> MinimalJavaScript
      [] format = "HTML" -> MinimalHTML
      [] format = "CSS" -> MinimalCSS
      [] format = "SQL" -> MinimalSQL
      [] format = "SVG" -> MinimalSVG
      [] format = "XML" -> MinimalXML
      [] format = "YAML" -> MinimalYAML
      [] OTHER -> MinimalText

ModerateSteps(format) ==
    CASE format = "JSON" -> ModerateJSON
      [] format = "CSV" -> ModerateCSV
      [] format = "JavaScript" -> ModerateJavaScript
      [] format = "HTML" -> ModerateHTML
      [] format = "CSS" -> ModerateCSS
      [] format = "SQL" -> ModerateSQL
      [] format = "SVG" -> ModerateSVG
      [] format = "XML" -> ModerateXML
      [] format = "YAML" -> ModerateYAML
      [] OTHER -> ModerateText

AggressiveSteps(format) ==
    CASE format = "JSON" -> AggressiveJSON
      [] format = "CSV" -> AggressiveCSV
      [] format = "JavaScript" -> AggressiveJavaScript
      [] format = "HTML" -> AggressiveHTML
      [] format = "CSS" -> AggressiveCSS
      [] format = "SQL" -> AggressiveSQL
      [] format = "SVG" -> AggressiveSVG
      [] format = "XML" -> AggressiveXML
      [] format = "YAML" -> AggressiveYAML
      [] OTHER -> AggressiveText

\* rewrites of the entry points themselves, outside the tiers: compressJSON
\* returns JSON.stringify of the parsed tree, compressCSV joins the non-blank
\* lines; neither pushes an operation
StringifyJSON == St("json_stringify", {}, {}, "never", 1, Del)
JoinLinesCSV == St("drop_blank_lines", {}, {}, "never", 1, Del)

EntrySteps(format) ==
    CASE format = "JSON" -> <<StringifyJSON>>
      [] format = "CSV" -> <<JoinLinesCSV>>
      [] OTHER -> <<>>

AllSteps(format) ==
    MinimalSteps(format) \o ModerateSteps(format) \o AggressiveSteps(format)
        \o EntrySteps(format)

\* option values are written as JavaScript literals
Truthy(v) == v \notin {"false", "0", "null", "undefined"}

\* if (customOptions.k)
IsSet(customOptions, k) == k \in DOMAIN customOptions /\ Truthy(customOptions[k])

\* if (customOptions.k !== false)
NotFalse(customOptions, k) == k \notin DOMAIN customOptions \/ customOptions[k] # "false"

StepEnabled(step, customOptions) ==
    /\ \A k \in step.need : IsSet(customOptions, k)
    /\ \A k \in step.veto : NotFalse(customOptions, k)

\* what the step does to the text at hand
Outcome(content, type) == IF type \in DOMAIN content THEN content[type] ELSE "none"

LengthChange(outcome) ==
    CASE outcome = "shrink" -> -1
      [] outcome = "grow" -> 1
      [] OTHER -> 0

Rewrites(outcome) == outcome \in {"same", "shrink", "grow"}

Pushes(step, outcome, before, after) ==
    CASE step.log = "shorter" -> after < before
      [] step.log = "count" -> outcome # "none"
      [] step.log = "always" -> TRUE
      [] OTHER -> FALSE

Operation(step) == [type |-> step.type, count |-> step.cnt]

\* One step on the running text.  run.compressed lists the rewrites that
\* changed the text so far, run.length is its length, run.error is the
\* exception on its way out, if any.
ApplyStep(step, content, customOptions, run) ==
    IF run.error # None \/ ~StepEnabled(step, customOptions)
    THEN run
    ELSE LET outcome == Outcome(content, step.type)
             before == run.length
             after == before + LengthChange(outcome)
         IN  IF outcome = "throw"
             THEN [run EXCEPT !.error = "TypeError"]
             ELSE [length |-> after,
                   compressed |-> IF Rewrites(outcome)
                                  THEN Append(run.compressed, step.type)
                                  ELSE run.compressed,
                   operations |-> IF Pushes(step, outcome, before, after)
                                  THEN Append(run.operations, Operation(step))
                                  ELSE run.operations,
                   error |-> None]

RECURSIVE ApplySteps(_, _, _, _)
ApplySteps(steps, content, customOptions, run) ==
    IF steps = <<>>
    THEN run
    ELSE ApplySteps(Tail(steps), content, customOptions,
                    ApplyStep(Head(steps), content, customOptions, run))

applyMinimalCompression(format, content, customOptions, run) ==
    ApplySteps(MinimalSteps(format), content, customOptions, run)

\* "First apply minimal compression", then the tier's own steps
applyModerateCompression_ownStepsFirst(format, content, customOptions, run) ==
    applyMinimalCompression(format, content, customOptions,
        ApplySteps(ModerateSteps(format), content, customOptions, run))

applyModerateCompression(format, content, customOptions, run) ==
    ApplySteps(ModerateSteps(format), content, customOptions,
        applyMinimalCompression(format, content, customOptions, run))

\* "First apply moderate compression", then the tier's own steps
applyAggressiveCompression(format, content, customOptions, run) ==
    ApplySteps(AggressiveSteps(format), content, customOptions,
        applyModerateCompression(format, content, customOptions, run))

InvalidLevel == "Invalid loss level"
InvalidJSON == "Invalid JSON format"
EmptyCSV == "Empty CSV file"
ContentLength == 40

StartRun == [length |-> ContentLength, compressed |-> <<>>, operations |-> <<>>, error |-> None]

\* lossLevel = 'moderate' in the parameter list
DefaultLevel(lossLevel) == IF lossLevel = "undefined" THEN "moderate" ELSE lossLevel

\* the default branch raises where the mutant falls back to moderate
SwitchLevel_fallbackModerate(format, lossLevel, content, customOptions, run) ==
    CASE lossLevel = "minimal" -> applyMinimalCompression(format, content, customOptions, run)
      [] lossLevel = "aggressive" ->
            applyAggressiveCompression(format, content, customOptions, run)
      [] OTHER -> applyModerateCompression(format, content, customOptions, run)

\* switch (lossLevel)
SwitchLevel(format, lossLevel, content, customOptions, run) ==
    CASE lossLevel = "minimal" -> applyMinimalCompression(format, content, customOptions, run)
      [] lossLevel = "moderate" -> applyModerateCompression(format, content, customOptions, run)
      [] lossLevel = "aggressive" ->
            applyAggressiveCompression(format, content, customOptions, run)
      [] OTHER -> [run EXCEPT !.error = InvalidLevel]

Thrown(message) == [kind |-> "thrown", error |-> message]

CompressionResult(run) ==
    [kind |-> "returned",
     compressed |-> run.compressed,
     operations |-> run.operations,
     originalSize |-> ContentLength,
     compressedSize |-> run.length]

\* The body shared by the compress* entry points; JSON and CSV parse before
\* they look at the tier.  call.wellFormed says that the text parses (JSON)
\* or has a non-blank line (CSV).
Compress(call) ==
    LET format == call.format
        lossLevel == DefaultLevel(call.lossLevel)
    IN  IF format = "JSON" /\ ~call.wellFormed THEN Thrown(InvalidJSON)
        ELSE IF format = "CSV" /\ ~call.wellFormed THEN Thrown(EmptyCSV)
        ELSE LET parsed == IF format = "CSV"
                           THEN ApplyStep(JoinLinesCSV, call.content, call.customOptions,
                                          StartRun)
                           ELSE StartRun
                 tiers == SwitchLevel(format, lossLevel, call.content, call.customOptions,
                                      parsed)
                 run == IF format = "JSON"
                        THEN ApplyStep(StringifyJSON, call.content, call.customOptions, tiers)
                        ELSE tiers
             IN  IF run.error # None THEN Thrown(run.error) ELSE CompressionResult(run)


(***************************************************************************)
(* utils/compression-options.js : the option registry, key -> default      *)
(***************************************************************************)
T == "true"
F == "false"

compressionOptions(format) ==
    CASE format = "JSON" ->
           [removeNulls |-> T, removeEmpty |-> T, trimStrings |-> T, shortenKeys |-> T,
            roundNumbers |-> T, deduplicateArrays |-> T, truncateStrings |-> F,
            maxStringLength |-> "100"]
      [] format = "CSV" ->
           [removeEmptyRows |-> T, trimFields |-> T, deduplicateRows |-> T, roundNumbers |-> T,
            numberPrecision |-> "2", removeLowVarianceColumns |-> T, truncateText |-> T,
            maxTextLength |-> "50", deltaEncoding |-> T, dictionaryEncoding |-> T,
            keepFirstNColumns |-> F, maxColumns |-> "5", sampleRows |-> F, sampleRate |-> "5",
            removeOutliers |-> F, statisticalSampling |-> F]
      [] format = "JavaScript" ->
           [removeComments |-> T, removeWhitespace |-> T, removeConsole |-> T,
            removeDebugger |-> T, shortenBooleans |-> T, shortenUndefined |-> T,
            shortenInfinity |-> T, optimizeNumbers |-> T]
      [] format = "HTML" ->
           [removeComments |-> T, removeWhitespace |-> T, removeAttributeQuotes |-> T,
            removeOptionalTags |-> F, removeTypeAttributes |-> T, removeEmptyAttributes |-> T,
            shortenBooleanAttributes |-> T, shortenDoctype |-> T]
      [] format = "CSS" ->
           [removeComments |-> T, removeWhitespace |-> T, shortenColors |-> T,
            shortenZeros |-> T, removeUnusedRules |-> F, mergeDuplicateRules |-> T,
            removeVendorPrefixes |-> F]
      [] format = "SQL" ->
           [removeComments |-> T, formatStatements |-> T, lowercaseKeywords |-> T,
            removeExplain |-> T, shortenAliases |-> T, removeOptionalKeywords |-> T,
            combineInserts |-> T, removeSchemaChanges |-> F, keepDataOnly |-> F,
            removeTransactions |-> F, removeConstraints |-> F, sampleInserts |-> F,
            insertSampleRate |-> "5"]
      [] format = "SVG" ->
           [removeComments |-> T, removeMetadata |-> T, removeHiddenElements |-> T,
            shortenIds |-> F, optimizePaths |-> T, roundNumbers |-> T, numberPrecision |-> "2",
            removeDefaultAttrs |-> T]
      [] format = "XML" ->
           [removeComments |-> T, removeWhitespace |-> T, removeDeclaration |-> T,
            removeDoctype |-> T, removeCdata |-> T, removeEmptyElements |-> T,
            removeAttributeQuotes |-> T, roundNumericValues |-> T, shortenTagNames |-> F]
      [] format = "YAML" ->
           [removeComments |-> T, removeDocumentMarkers |-> T, inlineShortStrings |-> T,
            removeUnnecessaryQuotes |-> T, shortenNullValues |-> T, convertToFlowStyle |-> T,
            shortenKeys |-> F]
      [] format = "Text" ->
           [removeEmptyLines |-> T, trimLines |-> T, normalizeWhitespace |-> T,
            sampleLines |-> F, lineSampleRate |-> "3"]
      [] OTHER ->
           [removeEmptyLines |-> T, simplifyLinks |-> T, removeHtmlComments |-> T,
            simplifyHeaders |-> T, removeImages |-> F]

\* getDefaultOptions(fileType)[key]
getDefaultOption(format, key) == compressionOptions(format)[key]

(***************************************************************************)
(* The calls: a format, a tier argument, an option map and a text.  An     *)
(* input is put together from at most MaxInputs choices, each one either   *)
(* a value for an option key the engine reads (or true for all the keys    *)
(* one step asks for) or something in the text for a step to rewrite.      *)
(***************************************************************************)
MaxInputs == 2

LevelArgs == LevelSet \cup {"undefined", "extreme"}

Range(s) == {s[i] : i \in DOMAIN s}

\* the keys an engine reads from customOptions
KeysRead(format) == UNION {st.need \cup st.veto : st \in Range(AllSteps(format))}


OptionChoices(format) ==
    {[kind |-> "option", keys |-> {k}, val |-> v] : k \in KeysRead(format), v \in {T, F}}
        \cup {[kind |-> "option", keys |-> st.need, val |-> T] :
                st \in {s \in Range(AllSteps(format)) : Cardinality(s.need) > 1}}

StepChoices(format) ==
    UNION {{[kind |-> "step", keys |-> {st.type}, val |-> o] : o \in st.outs \ {"none"}} :
            st \in Range(AllSteps(format))}

RECURSIVE ChoiceSets(_, _)
ChoiceSets(choices, n) ==
    IF n = 0
    THEN {{}}
    ELSE LET smaller == ChoiceSets(choices, n - 1)
         IN  smaller \cup {p \cup {c} : p \in smaller, c \in choices}

\* no key and no step is chosen twice; a CSV text on which the column filter
\* raises has a header and no data row, so nothing else to rewrite
Consistent(p) ==
    /\ \A a \in p : \A b \in p :
          (a.kind = b.kind /\ a.keys \cap b.keys # {}) => a = b
    /\ \A a \in p : (a.kind = "step" /\ a.val = "throw") =>
          \A b \in p : b.kind = "step" => (b = a \/ b.keys = {"drop_blank_lines"})

\* what a key is switched on with: a column list and a length for the two
\* keys that carry data, true for the others
OnValue(key) ==
    CASE key = "essentialColumnIndices" -> "[0]"
      [] key = "maxLength" -> "10"
      [] OTHER -> T

OptionsOf(p) ==
    LET chosen == {c \in p : c.kind = "option"}
    IN  [k \in UNION {c.keys : c \in chosen} |->
            IF (CHOOSE c \in chosen : k \in c.keys).val = T THEN OnValue(k) ELSE F]

ContentOf(p) ==
    LET chosen == {c \in p : c.kind = "step"}
    IN  [t \in UNION {c.keys : c \in chosen} |-> (CHOOSE c \in chosen : t \in c.keys).val]

Call(format, lossLevel, wellFormed, p) ==
    [format |-> format, lossLevel |-> lossLevel, wellFormed |-> wellFormed,
     customOptions |-> OptionsOf(p), content |-> ContentOf(p)]

\* a text that parses, with anything in it; for JSON and CSV also a text
\* that does not parse, in which no step finds anything
Parses(format, wellFormed, p) ==
    wellFormed \/ (format \in {"JSON", "CSV"} /\ \A c \in p : c.kind = "option")

\* one call of an entry point, to its return or its exception
Invoke(format) ==
    /\ enPc = "idle"
    /\ \E p \in ChoiceSets(OptionChoices(format) \cup StepChoices(format), MaxInputs) :
          /\ Consistent(p)
          /\ \E lossLevel \in LevelArgs, wellFormed \in BOOLEAN :
                /\ Parses(format, wellFormed, p)
                /\ enCall' = Call(format, lossLevel, wellFormed, p)
                /\ enOut' = Compress(enCall')
                /\ enPc' = enOut'.kind
    /\ UNCHANGED <<pvVars, rnVars, cfVars, extVars>>

compressJSON == Invoke("JSON")
compressCSV == Invoke("CSV")
compressJavaScript == Invoke("JavaScript")
compressHTML == Invoke("HTML")
compressCSS == Invoke("CSS")
compressSQL == Invoke("SQL")
compressSVG == Invoke("SVG")
compressXML == Invoke("XML")
compressYAML == Invoke("YAML")
compressText == Invoke("Text") \/ Invoke("Markdown")


InitEngine == ExtIdle /\ PreviewIdle /\ EngineIdle /\ RoundIdle /\ CompressIdle
NextEngine ==
    \/ compressJSON
    \/ compressCSV
    \/ compressJavaScript
    \/ compressHTML
    \/ compressCSS
    \/ compressSQL
    \/ compressSVG
    \/ compressXML
    \/ compressYAML
    \/ compressText
SpecEngine == InitEngine /\ [][NextEngine]_vars


(***************************************************************************)
(* Properties of the engines                                               *)
(***************************************************************************)
Called == enPc # "idle"

\* a tier argument outside the three names; an omitted argument is moderate
InvalidTier == Called /\ enCall.lossLevel \notin (LevelSet \cup {"undefined"})

OperationTypes(operations) == {operations[i].type : i \in DOMAIN operations}

\* the operations array of the call's text and options as the given tier leaves it
Logged(call, level) ==
    SwitchLevel(call.format, level, call.content, call.customOptions, StartRun).operations

\* C3 as stated: whatever the content, a call with a tier argument that is
\* not minimal, moderate or aggressive fails with the invalid-tier error
C3_InvalidTierAlwaysInvalidTierError ==
    InvalidTier => (enOut.kind = "thrown" /\ enOut.error = InvalidLevel)

\* C3: a call with a tier argument that is not minimal, moderate or
\* aggressive always fails and returns no result; the error is the
\* invalid-tier error, except that the JSON engine given a text that does not
\* parse fails with the invalid-format error and the CSV engine given a text
\* without a non-blank line fails with the empty-file error, both raised
\* before the tier is looked at
C3_InvalidTierFails ==
    InvalidTier =>
        /\ enOut.kind = "thrown"
        /\ enOut.error =
             IF enCall.format = "JSON" /\ ~enCall.wellFormed THEN InvalidJSON
             ELSE IF enCall.format = "CSV" /\ ~enCall.wellFormed THEN EmptyCSV
             ELSE InvalidLevel

C3_Witness ==
    /\ InvalidTier
    /\ enCall.format = "CSV"
    /\ enCall.wellFormed
    /\ DOMAIN enCall.content # {}
    /\ enOut.kind = "thrown"
    /\ enOut.error = InvalidLevel

\* C4: every entry of the returned operations list belongs to a step that
\* changed the text or whose scan counted something; no entry is there for a
\* step that found nothing to do
C4_EveryEntryIsAChange ==
    enPc = "returned" =>
        \A i \in DOMAIN enOut.operations :
            Outcome(enCall.content, enOut.operations[i].type) # "none"

\* C5: every rewrite that changed the text has an entry in the returned
\* operations list, and the list is not empty when the output differs from
\* the input
C5_EveryChangeIsLogged ==
    enPc = "returned" =>
        /\ \A i \in DOMAIN enOut.compressed :
              enOut.compressed[i] \in OperationTypes(enOut.operations)
        /\ enOut.compressed # <<>> => enOut.operations # <<>>

\* C6: for one text and one option map, the operations logged at minimal are
\* a prefix of those logged at moderate, which are a prefix of those logged
\* at aggressive (so the operation types of a tier contain those of the tier
\* below): what a call at one tier returns is a prefix of what the next tier
\* logs for the same text and options
C6_TierOperationsArePrefixes ==
    enPc = "returned" =>
        LET level == DefaultLevel(enCall.lossLevel)
        IN  /\ level = "minimal" => IsPrefix(enOut.operations, Logged(enCall, "moderate"))
            /\ level = "moderate" => IsPrefix(enOut.operations, Logged(enCall, "aggressive"))

C6_Witness ==
    /\ enPc = "returned"
    /\ enCall.lossLevel = "moderate"
    /\ Len(enOut.operations) = 2
    /\ Logged(enCall, "minimal") = <<enOut.operations[1]>>
    /\ Logged(enCall, "aggressive") = enOut.operations

\* the option map with one more key
WithOption(customOptions, key, value) == (key :> value) @@ customOptions

\* C7: a call with a registry key left out of the option map has the same
\* outcome as the call with the key set to the registry's default
C7_UnsetKeyIsRegistryDefault ==
    Called =>
        \A key \in DOMAIN compressionOptions(enCall.format) \ DOMAIN enCall.customOptions :
            Compress([enCall EXCEPT !.customOptions =
                        WithOption(enCall.customOptions, key,
                                   getDefaultOption(enCall.format, key))]) = enOut


(***************************************************************************)
(* compression/json.js : roundNumbers                                      *)
(*                                                                         *)
(* A JSON value is a node [kind, val, items]: a number carries its value   *)
(* in thousandths in val, an array or an object its children in items (an  *)
(* object in key order).  The sample numbers are 2, 1.5, -2.718 and 0.999; *)
(* halves among them are exact in binary, so toFixed rounds them away from *)
(* zero.                                                                   *)
(***************************************************************************)
MaxNodes == 4
MaxPasses == 2

Numbers == {2000, 1500, -2718, 999}
Decimals == {0, 1, 2}

Number(m) == [kind |-> "number", val |-> m, items |-> <<>>]
String == [kind |-> "string", val |-> 0, items |-> <<>>]
Container(kind, items) == [kind |-> kind, val |-> 0, items |-> items]
Containers == {"array", "object"}

RECURSIVE TreesOfSize(_), ChildrenOfSize(_)
\* the values with n nodes
TreesOfSize(n) ==
    IF n = 1
    THEN {Number(m) : m \in Numbers} \cup {String} \cup {Container(k, <<>>) : k \in Containers}
    ELSE {Container(k, items) : k \in Containers, items \in ChildrenOfSize(n - 1)}

\* the non-empty sequences of values with n nodes in all
ChildrenOfSize(n) ==
    UNION {{<<t>> \o rest : t \in TreesOfSize(k),
                            rest \in IF k = n THEN {<<>>} ELSE ChildrenOfSize(n - k)} :
           k \in 1..n}

\* the trees of up to size values
Trees(size) == UNION {TreesOfSize(n) : n \in 1..size}

Abs(m) == IF m < 0 THEN -m ELSE m

RECURSIVE Pow10(_)
Pow10(n) == IF n = 0 THEN 1 ELSE 10 * Pow10(n - 1)

\* Number.isInteger(x), x held in thousandths
IsInteger(m) == m % Pow10(3) = 0

\* parseFloat(x.toFixed(decimals)): the nearest multiple of 10^-decimals
toFixed(m, decimals) ==
    LET unit == Pow10(3 - decimals)
        n == (Abs(m) + unit \div 2) \div unit
    IN  IF m < 0 THEN -(n * unit) ELSE n * unit

\* roundNumbers(obj, decimals, count): the tree as the call leaves it and the
\* number of increments of count.value
RECURSIVE roundNumbers(_, _)
RECURSIVE roundItems(_, _)
roundItems(items, decimals) ==
    IF items = <<>>
    THEN [tree |-> <<>>, count |-> 0]
    ELSE LET item == Head(items)
             first == IF item.kind = "number" /\ ~IsInteger(item.val)
                      THEN [tree |-> Number(toFixed(item.val, decimals)), count |-> 1]
                      ELSE IF item.kind \in Containers
                           THEN roundNumbers(item, decimals)
                           ELSE [tree |-> item, count |-> 0]
             rest == roundItems(Tail(items), decimals)
         IN  [tree |-> <<first.tree>> \o rest.tree, count |-> first.count + rest.count]

roundNumbers(obj, decimals) ==
    IF obj.kind \in Containers
    THEN LET items == roundItems(obj.items, decimals)
         IN  [tree |-> Container(obj.kind, items.tree), count |-> items.count]
    ELSE [tree |-> obj, count |-> 0]

InitRound ==
    /\ ExtIdle /\ PreviewIdle /\ EngineIdle /\ CompressIdle
    /\ rnTree \in Trees(MaxNodes)
    /\ rnDecimals \in Decimals
    /\ rnPasses = <<>>
    /\ rnAfterFirst = None

\* one more call of roundNumbers on the same tree at the same precision
RoundPass ==
    /\ Len(rnPasses) < MaxPasses
    /\ LET pass == roundNumbers(rnTree, rnDecimals)
       IN  /\ rnTree' = pass.tree
           /\ rnPasses' = Append(rnPasses, pass.count)
           /\ rnAfterFirst' = IF rnPasses = <<>> THEN pass.tree ELSE rnAfterFirst
    /\ UNCHANGED <<rnDecimals, pvVars, enVars, cfVars, extVars>>

NextRound == RoundPass
SpecRound == InitRound /\ [][NextRound]_vars

\* C10: a second pass of roundNumbers at the same precision over the tree
\* the first pass rounded changes no value and returns a count of 0
C10_SecondPassRoundsNothing ==
    Len(rnPasses) >= 2 => (rnTree = rnAfterFirst /\ rnPasses[2] = 0)


(***************************************************************************)
(* app.js : compressFiles                                                  *)
(*                                                                         *)
(* A selected file is [name, size, fate]; fate says what happens to it in  *)
(* the run: "ok", "read" (file.text() rejects), "type" (no engine for the  *)
(* detected type) or "engine" (the engine throws).                         *)
(***************************************************************************)
MaxFiles == 3

FileNames == {"a.json", "b.csv"}
Fates == {"ok", "read", "type", "engine"}
Files == [name : FileNames, size : {10}, fate : Fates]

RECURSIVE Selections(_)
Selections(n) ==
    IF n = 0
    THEN {<<>>}
    ELSE LET shorter == Selections(n - 1)
         IN  shorter \cup {Append(s, f) : s \in {t \in shorter : Len(t) = n - 1}, f \in Files}

\* error.message of what the try block throws for the file
ErrorMessage(file) ==
    CASE file.fate = "read" -> "read failed"
      [] file.fate = "type" -> "Unsupported file type"
      [] OTHER -> EngineErrorMessage

\* data_loss of the manifest
DataLoss(level) ==
    IF level = "aggressive" THEN "high" ELSE IF level = "moderate" THEN "medium" ELSE "low"

\* the entry pushed at the end of the try block
ResultEntry(file, level) ==
    [originalName |-> file.name,
     originalSize |-> file.size,
     compressedContent |-> <<"compressed", file.name, level>>,
     manifest |-> [original_file |-> file.name,
                   compression_level |-> level,
                   original_size |-> file.size,
                   data_loss |-> DataLoss(level)]]

\* the entry pushed by the catch block
ErrorEntry(file) ==
    [originalName |-> file.name, originalSize |-> file.size, error |-> ErrorMessage(file)]

\* i++ and the loop test; after the last file hideLoading() and showResults()
NextIteration(i, n) ==
    IF i + 1 <= n THEN [pc |-> "reading", i |-> i + 1] ELSE [pc |-> "results", i |-> i + 1]

\* variant: the catch around the whole loop, ending the batch at the first failure
AfterCatch_endsBatch(i, n) == [pc |-> "results", i |-> i + 1]

\* the catch block is inside the loop body: the loop goes on with the next file
AfterCatch(i, n) == NextIteration(i, n)

InitCompressFiles ==
    /\ ExtIdle /\ PreviewIdle /\ EngineIdle /\ RoundIdle
    /\ selectedFiles \in Selections(MaxFiles)
    /\ compressionLevel \in LevelSet
    /\ compressionResults = <<>>
    /\ cfPc = "idle"
    /\ cfI = 0
    /\ cfFile = None

\* the click on compressBtn: compressionResults is emptied and the loop
\* runs up to its first await
CompressFilesStart ==
    /\ cfPc = "idle"
    /\ compressionResults' = <<>>
    /\ LET next == NextIteration(0, Len(selectedFiles))
       IN  /\ cfPc' = next.pc
           /\ cfI' = next.i
           /\ cfFile' = IF next.pc = "reading" THEN selectedFiles[next.i] ELSE None
    /\ UNCHANGED <<selectedFiles, compressionLevel, pvVars, enVars, rnVars, extVars>>

\* await file.text() settles: a rejection or a missing engine goes to the
\* catch block, otherwise the engine is called and awaited
FileTextSettles ==
    /\ cfPc = "reading"
    /\ IF cfFile.fate \in {"read", "type"}
       THEN LET next == AfterCatch(cfI, Len(selectedFiles))
            IN  /\ compressionResults' = Append(compressionResults, ErrorEntry(cfFile))
                /\ cfPc' = next.pc
                /\ cfI' = next.i
                /\ cfFile' = IF next.pc = "reading" THEN selectedFiles[next.i] ELSE None
       ELSE /\ cfPc' = "compressing"
            /\ UNCHANGED <<compressionResults, cfI, cfFile>>
    /\ UNCHANGED <<selectedFiles, compressionLevel, pvVars, enVars, rnVars, extVars>>

\* await compressFunc(content, compressionLevel, customOptions) settles
EngineSettles ==
    /\ cfPc = "compressing"
    /\ LET failed == cfFile.fate = "engine"
           next == IF failed
                   THEN AfterCatch(cfI, Len(selectedFiles))
                   ELSE NextIteration(cfI, Len(selectedFiles))
       IN  /\ compressionResults' =
                 Append(compressionResults,
                        IF failed THEN ErrorEntry(cfFile)
                        ELSE ResultEntry(cfFile, compressionLevel))
           /\ cfPc' = next.pc
           /\ cfI' = next.i
           /\ cfFile' = IF next.pc = "reading" THEN selectedFiles[next.i] ELSE None
    /\ UNCHANGED <<selectedFiles, compressionLevel, pvVars, enVars, rnVars, extVars>>

NextCompressFiles == CompressFilesStart \/ FileTextSettles \/ EngineSettles
SpecCompressFiles == InitCompressFiles /\ [][NextCompressFiles]_vars

IsErrorEntry(entry) == "error" \in DOMAIN entry
IsSuccessEntry(entry) == "manifest" \in DOMAIN entry /\ "error" \notin DOMAIN entry

\* C8: when a run of compressFiles over n selected files has ended,
\* compressionResults has exactly n entries in selection order, an error
\* entry for each file that failed (read error, unsupported type, engine
\* error) and a success entry with a manifest for each other file
C8_OneEntryPerFile ==
    cfPc = "results" =>
        /\ Len(compressionResults) = Len(selectedFiles)
        /\ \A i \in DOMAIN selectedFiles :
              LET file == selectedFiles[i]
                  entry == compressionResults[i]
              IN  /\ entry.originalName = file.name
                  /\ IF file.fate = "ok"
                     THEN /\ IsSuccessEntry(entry)
                          /\ entry.manifest.original_file = file.name
                          /\ entry.manifest.compression_level = compressionLevel
                     ELSE /\ IsErrorEntry(entry)
                          /\ entry.error = ErrorMessage(file)

C8_Witness ==
    /\ cfPc = "results"
    /\ Len(selectedFiles) = 3
    /\ selectedFiles[1].fate = "read"
    /\ selectedFiles[2].fate = "engine"
    /\ selectedFiles[3].fate = "ok"
    /\ selectedFiles[1].name # selectedFiles[3].name
    /\ Len(compressionResults) = 3
    /\ IsSuccessEntry(compressionResults[3])


(***************************************************************************)
(* compression/csv.js : numbers and the text of fields                     *)
(*                                                                         *)
(* A field is the string the CSV holds.  A number is finite (held in       *)
(* thousandths), one of the two infinities, or NaN.                        *)
(***************************************************************************)
MaxRows == 4

Fin(m) == [k |-> "fin", n |-> m]
Inf(sign) == [k |-> "inf", n |-> sign]
NaN == [k |-> "nan", n |-> 0]

isNaN(v) == v.k = "nan"

\* a - b of two numbers
Minus(a, b) ==
    CASE isNaN(a) \/ isNaN(b) -> NaN
      [] a.k = "fin" /\ b.k = "fin" -> Fin(a.n - b.n)
      [] a.k = "inf" /\ b.k = "fin" -> a
      [] a.k = "fin" /\ b.k = "inf" -> Inf(-b.n)
      [] OTHER -> IF a.n = b.n THEN NaN ELSE a

\* a + b of two numbers
Plus(a, b) == Minus(a, IF isNaN(b) THEN b ELSE [b EXCEPT !.n = -b.n])

\* Math.abs(v) > 0.01
ExceedsHundredth(v) ==
    CASE isNaN(v) -> FALSE
      [] v.k = "inf" -> TRUE
      [] OTHER -> Abs(v.n) > Pow10(1)

\* v >= 0
NotNegative(v) == ~isNaN(v) /\ v.n >= 0

Digits == <<"0", "1", "2", "3", "4", "5", "6", "7", "8", "9">>

RECURSIVE Numeral(_)
Numeral(n) ==
    IF n < Len(Digits) THEN Digits[n + 1]
    ELSE Numeral(n \div Len(Digits)) \o Digits[(n % Len(Digits)) + 1]

\* the digits after the decimal point of a number with f thousandths, f > 0,
\* without trailing zeros
Fraction(f) ==
    LET d1 == Digits[f \div Pow10(2) + 1]
        d2 == Digits[((f \div Pow10(1)) % Pow10(1)) + 1]
        d3 == Digits[(f % Pow10(1)) + 1]
    IN  IF f % Pow10(1) # 0 THEN d1 \o d2 \o d3
        ELSE IF f % Pow10(2) # 0 THEN d1 \o d2 ELSE d1

\* Number.prototype.toString()
toStringText(v) ==
    CASE isNaN(v) -> "NaN"
      [] v.k = "inf" -> IF v.n > 0 THEN "Infinity" ELSE "-Infinity"
      [] OTHER ->
            LET a == Abs(v.n)
                whole == Numeral(a \div Pow10(3))
                text == IF IsInteger(a) THEN whole
                        ELSE whole \o "." \o Fraction(a % Pow10(3))
            IN  IF v.n < 0 THEN "-" \o text ELSE text

\* Number.prototype.toFixed(2)
toFixedText(v) ==
    CASE isNaN(v) -> "NaN"
      [] v.k = "inf" -> IF v.n > 0 THEN "Infinity" ELSE "-Infinity"
      [] OTHER ->
            LET h == toFixed(Abs(v.n), 2) \div Pow10(1)
                text == Numeral(h \div Pow10(2)) \o "."
                            \o Digits[((h \div Pow10(1)) % Pow10(1)) + 1]
                            \o Digits[(h % Pow10(1)) + 1]
            IN  IF v.n < 0 THEN "-" \o text ELSE text

\* the finite cells of the tables below, in thousandths
DecimalCells == {0, 1004, 2008, 3012}
WholeCells == {n * Pow10(3) : n \in 0..(MaxRows + 1)}

\* the numbers whose spellings can occur in a table: the cells, their
\* roundings, the differences of two of them, and the infinities
NumberValues ==
    LET base == DecimalCells \cup {toFixed(m, 2) : m \in DecimalCells} \cup WholeCells
    IN  {Fin(a - b) : a \in base, b \in base} \cup {Inf(1), Inf(-1)}

Spellings(v) == {toStringText(v), toFixedText(v), "+" \o toFixedText(v)}

NumericTexts == UNION {Spellings(v) : v \in NumberValues}

\* the number a numeric text denotes: "1.004" is 1.004, "+1.00" is 1
ParsedNumber ==
    [t \in NumericTexts |->
        IF \E v \in NumberValues : t = toStringText(v)
        THEN CHOOSE v \in NumberValues : t = toStringText(v)
        ELSE LET v == CHOOSE w \in NumberValues : t \in Spellings(w)
             IN  IF v.k = "fin" THEN Fin(toFixed(v.n, 2)) ELSE v]

\* parseFloat(field): every other text of the tables ("apple", "NaN", "",
\* "__proto__", ...) has no numeric prefix
parseFloat(field) ==
    IF field \in DOMAIN ParsedNumber THEN ParsedNumber[field] ELSE NaN


(***************************************************************************)
(* compression/csv.js : the tiers on a parsed table.  header is the        *)
(* sequence of header fields, dataLines a sequence of lines, a line the    *)
(* sequence of its fields; every line has as many fields as the header.    *)
(***************************************************************************)
RangeOf(seq) == {seq[i] : i \in DOMAIN seq}

\* the elements of seq at the positions in keep, in order
Pick(seq, keep) ==
    [k \in 1..Cardinality(keep) |->
        seq[CHOOSE i \in keep : Cardinality({j \in keep : j < i}) = k - 1]]

ColumnOf(dataLines, colIndex) == [i \in DOMAIN dataLines |-> dataLines[i][colIndex]]

\* remove_empty_rows; the fields of the tables carry no surrounding
\* whitespace, so trim_fields finds nothing to trim
applyMinimalCSVCompression(header, dataLines, options) ==
    LET keep == {i \in DOMAIN dataLines : \E f \in RangeOf(dataLines[i]) : f # ""}
        kept == IF options.removeEmptyRows THEN Pick(dataLines, keep) ELSE dataLines
    IN  [header |-> header, dataLines |-> kept,
         operations |->
            IF Len(kept) < Len(dataLines)
            THEN <<[type |-> "remove_empty_rows", count |-> Len(dataLines) - Len(kept),
                    reversible |-> FALSE, impact |-> "low"]>>
            ELSE <<>>]


\* Array.from(new Set(dataLines)): the first occurrence of every line
deduplicateRows(dataLines) ==
    Pick(dataLines, {i \in DOMAIN dataLines : \A j \in 1..(i - 1) : dataLines[j] # dataLines[i]})

\* !isNaN(parseFloat(field)) && field.trim() !== ''
IsNumber(field) == field # "" /\ ~isNaN(parseFloat(field))

\* the round_numbers step: every numeric field becomes num.toFixed(2)
roundFields(dataLines) ==
    [i \in DOMAIN dataLines |->
        [c \in DOMAIN dataLines[i] |->
            IF IsNumber(dataLines[i][c]) THEN toFixedText(parseFloat(dataLines[i][c]))
            ELSE dataLines[i][c]]]

roundedCount(dataLines) ==
    Cardinality({p \in UNION {{<<i, c>> : c \in DOMAIN dataLines[i]} : i \in DOMAIN dataLines} :
                    IsNumber(dataLines[p[1]][p[2]])})

\* Math.abs(num - prevValue) > 0.01 for some consecutive pair of rows
hasVariance(column) ==
    \E i \in 2..Len(column) :
        ExceedsHundredth(Minus(parseFloat(column[i]), parseFloat(column[i - 1])))

\* the columns applyDeltaEncoding selects: every value numeric, with variance
numericColumns(header, dataLines) ==
    {c \in DOMAIN header :
        /\ \A i \in DOMAIN dataLines : IsNumber(dataLines[i][c])
        /\ hasVariance(ColumnOf(dataLines, c))}

\* (delta >= 0 ? '+' : '') + delta.toFixed(2)
deltaField(delta) == (IF NotNegative(delta) THEN "+" ELSE "") \o toFixedText(delta)

DeltaSuffix == "(Δ)"

applyDeltaEncoding(header, dataLines) ==
    LET Encoded(cols) ==
            IF Len(dataLines) < 2 \/ cols = {}
            THEN [header |-> header, dataLines |-> dataLines, count |-> 0]
            ELSE [header |-> [c \in DOMAIN header |->
                                IF c \in cols THEN header[c] \o DeltaSuffix ELSE header[c]],
                  dataLines |->
                    [i \in DOMAIN dataLines |->
                        [c \in DOMAIN dataLines[i] |->
                            IF c \notin cols THEN dataLines[i][c]
                            ELSE IF i = 1 THEN toStringText(parseFloat(dataLines[1][c]))
                            ELSE deltaField(Minus(parseFloat(dataLines[i][c]),
                                                  parseFloat(dataLines[i - 1][c])))]],
                  count |-> Cardinality(cols)]
    IN  Encoded(numericColumns(header, dataLines))

\* the texts a column that is not numeric can hold, in the order of
\* Array.prototype.sort(): by UTF-16 code units, '+' < '-' < digits <
\* 'I' < 'N' < '_' < lower-case letters
SortedTexts ==
    <<"", "+0.00", "+1.00", "+Infinity", "-1.00", "-Infinity", "1", "1.00",
      "Infinity", "NaN", "__proto__", "apple", "fig", "pear">>

Rank(text) == CHOOSE k \in DOMAIN SortedTexts : SortedTexts[k] = text

\* Array.from(uniqueValues).sort()
sort(uniqueValues) ==
    [k \in 1..Cardinality(uniqueValues) |->
        CHOOSE t \in uniqueValues :
            Cardinality({u \in uniqueValues : Rank(u) < Rank(t)}) = k - 1]

\* dictionary[value] = code on a plain object: the key "__proto__" is the
\* prototype accessor, and setting it to a number stores nothing
dictionary(uniqueValues) ==
    LET sorted == sort(uniqueValues)
    IN  [value \in uniqueValues \ {"__proto__"} |->
            (CHOOSE k \in DOMAIN sorted : sorted[k] = value) - 1]

\* reverseDictionary[code] = value
reverseDictionary(uniqueValues) ==
    LET sorted == sort(uniqueValues)
    IN  [code \in 0..(Len(sorted) - 1) |-> sorted[code + 1]]

\* dictionary[value].toString(): for "__proto__" the lookup yields
\* Object.prototype, whose toString() is "[object Object]"
codeField(dict, value) ==
    IF value \in DOMAIN dict THEN Numeral(dict[value]) ELSE "[object Object]"

\* the columns applyDictionaryEncoding selects
stringColumnsWithRepetition(header, dataLines) ==
    {c \in DOMAIN header :
        LET values == ColumnOf(dataLines, c)
            uniqueCount == Cardinality(RangeOf(values))
        IN  /\ \E i \in DOMAIN values : values[i] # "" /\ isNaN(parseFloat(values[i]))
            /\ uniqueCount >= 3
            /\ uniqueCount < Len(values)
            /\ uniqueCount * 10 < 8 * Len(values)}

RECURSIVE uniqueTotal(_, _)
uniqueTotal(cols, dataLines) ==
    IF cols = {} THEN 0
    ELSE LET c == CHOOSE x \in cols : TRUE
         IN  Cardinality(RangeOf(ColumnOf(dataLines, c))) + uniqueTotal(cols \ {c}, dataLines)

\* parseFloat((average repetitionRate * 100).toFixed(1)), in tenths of a percent
avgCompressionRatio(cols, dataLines) ==
    LET parts == Len(dataLines) * Cardinality(cols)
    IN  (uniqueTotal(cols, dataLines) * Pow10(3) + parts \div 2) \div parts

applyDictionaryEncoding(header, dataLines) ==
    LET dict(c) == dictionary(RangeOf(ColumnOf(dataLines, c)))
        Encoded(cols) ==
            IF Len(dataLines) < 2 \/ cols = {}
            THEN [header |-> header, dataLines |-> dataLines, count |-> 0,
                  compressionRatio |-> 0]
            ELSE [header |-> [c \in DOMAIN header |->
                                IF c \in cols THEN header[c] \o "(D)" ELSE header[c]],
                  dataLines |->
                    [i \in DOMAIN dataLines |->
                        [c \in DOMAIN dataLines[i] |->
                            IF c \in cols THEN codeField(dict(c), dataLines[i][c])
                            ELSE dataLines[i][c]]],
                  count |-> Cardinality(cols),
                  compressionRatio |-> avgCompressionRatio(cols, dataLines)]
    IN  Encoded(stringColumnsWithRepetition(header, dataLines))

\* remove_low_variance_columns: a column stays if its non-empty fields hold
\* more than one value; the header is not touched
removeLowVarianceColumns(dataLines) ==
    LET firstLine == dataLines[1]
        columnsToKeep ==
            {c \in DOMAIN firstLine :
                Cardinality({dataLines[i][c] : i \in DOMAIN dataLines} \ {""}) > 1}
    IN  [dataLines |-> IF Cardinality(columnsToKeep) < Len(firstLine)
                       THEN [i \in DOMAIN dataLines |-> Pick(dataLines[i], columnsToKeep)]
                       ELSE dataLines,
         count |-> Len(firstLine) - Cardinality(columnsToKeep)]

\* The moderate tier.  Besides header, dataLines and the operations it
\* pushed, the record keeps the locals of the call: the lines left by
\* deduplicate_rows, and the results of the two encoders (the table as it
\* was, with count 0, when the gate kept the encoder from running).  No
\* field of the tables is longer than maxTextLength, so truncate_long_text
\* has nothing to cut.  Every step is an operator over the results of the
\* steps before it, in the order of the source.
applyModerateCSVCompression(header, dataLines, options) ==
    LET Push(count, operation) == IF count > 0 THEN <<operation>> ELSE <<>>
        \* remove_low_variance_columns, and the return
        Removed(operations, uniqueRows, deltaEncodedColumns, dictionaryResult, lowVariance) ==
            [header |-> dictionaryResult.header,
             dataLines |-> lowVariance.dataLines,
             operations |->
                operations
                \o Push(lowVariance.count,
                        [type |-> "remove_low_variance_columns",
                         count |-> lowVariance.count,
                         reversible |-> FALSE, impact |-> "medium"]),
             uniqueRows |-> uniqueRows,
             deltaEncodedColumns |-> deltaEncodedColumns,
             dictionaryResult |-> dictionaryResult]
        LowVariance(lines) ==
            IF options.removeLowVarianceColumns /\ Len(lines) > 0
            THEN removeLowVarianceColumns(lines)
            ELSE [dataLines |-> lines, count |-> 0]
        \* dictionary_encoding
        Encoded(operations, uniqueRows, deltaEncodedColumns, dictionaryResult) ==
            Removed(operations
                    \o Push(dictionaryResult.count,
                            [type |-> "dictionary_encoding",
                             columns |-> dictionaryResult.count,
                             unique_values_saved |-> dictionaryResult.compressionRatio,
                             reversible |-> TRUE, impact |-> "medium",
                             description |->
                                "Applied dictionary encoding to string column(s)"]),
                    uniqueRows, deltaEncodedColumns, dictionaryResult,
                    LowVariance(dictionaryResult.dataLines))
        Dictionary(columns, lines) ==
            IF options.dictionaryEncoding /\ Len(lines) > 1
            THEN applyDictionaryEncoding(columns, lines)
            ELSE [header |-> columns, dataLines |-> lines, count |-> 0,
                  compressionRatio |-> 0]
        \* delta_encoding
        Differenced(operations, uniqueRows, deltaEncodedColumns) ==
            Encoded(operations
                    \o Push(deltaEncodedColumns.count,
                            [type |-> "delta_encoding",
                             columns |-> deltaEncodedColumns.count,
                             reversible |-> TRUE, impact |-> "medium",
                             description |->
                                "Applied delta encoding to numeric column(s)"]),
                    uniqueRows, deltaEncodedColumns,
                    Dictionary(deltaEncodedColumns.header, deltaEncodedColumns.dataLines))
        Delta(lines) ==
            IF options.deltaEncoding /\ Len(lines) > 1
            THEN applyDeltaEncoding(header, lines)
            ELSE [header |-> header, dataLines |-> lines, count |-> 0]
        \* round_numbers
        Rounded(operations, uniqueRows) ==
            Differenced(operations
                        \o Push(IF options.roundNumbers THEN roundedCount(uniqueRows) ELSE 0,
                                [type |-> "round_numbers", decimals |-> 2,
                                 count |-> roundedCount(uniqueRows),
                                 reversible |-> FALSE, impact |-> "medium"]),
                        uniqueRows,
                        Delta(IF options.roundNumbers THEN roundFields(uniqueRows)
                              ELSE uniqueRows))
        \* deduplicate_rows
        Unique(operations, lines, uniqueRows) ==
            Rounded(operations
                    \o Push(Len(lines) - Len(uniqueRows),
                            [type |-> "deduplicate_rows",
                             count |-> Len(lines) - Len(uniqueRows),
                             reversible |-> FALSE, impact |-> "medium"]),
                    uniqueRows)
        Minimal(minimal) ==
            Unique(minimal.operations, minimal.dataLines,
                   IF options.deduplicateRows THEN deduplicateRows(minimal.dataLines)
                   ELSE minimal.dataLines)
    IN  Minimal(applyMinimalCSVCompression(header, dataLines, options))

\* ---- the tables and option settings of the calls ----
DecimalTexts == {toStringText(Fin(m)) : m \in DecimalCells}
MixedCells == {"1", "Infinity", "apple", "fig", "pear", "__proto__"}

\* one column of decimals; one column of mixed cells; an id column 1, 2,
\* 3, ... followed by a column of mixed cells; of up to rows data lines
Tables(rows) ==
    UNION {
        {[header |-> <<"v">>, dataLines |-> [i \in 1..n |-> <<column[i]>>]] :
            column \in [1..n -> DecimalTexts] \cup [1..n -> MixedCells]}
        \cup
        {[header |-> <<"id", "v">>,
          dataLines |-> [i \in 1..n |-> <<Numeral(i), column[i]>>]] :
            column \in [1..n -> MixedCells]}
        : n \in 2..rows}

CsvOptionKeys ==
    {"removeEmptyRows", "deduplicateRows", "roundNumbers", "deltaEncoding",
     "dictionaryEncoding", "removeLowVarianceColumns"}

\* customOptions: {} or one of the gates set to false
OptionSettings ==
    {[k \in CsvOptionKeys |-> k # off] : off \in (CsvOptionKeys \ {"removeEmptyRows"}) \cup {None}}

InitCsv ==
    /\ csPc = "idle"
    /\ \E table \in Tables(MaxRows) : csHeader = table.header /\ csLines = table.dataLines
    /\ csOptions \in OptionSettings
    /\ csOut = None
    /\ IdleBut("csv")

\* a call applyModerateCSVCompression(header, dataLines, operations, customOptions)
ModerateCSVCall ==
    /\ csPc = "idle"
    /\ csOut' = applyModerateCSVCompression(csHeader, csLines, csOptions)
    /\ csPc' = "returned"
    /\ UNCHANGED <<csHeader, csLines, csOptions>>
    /\ Frame("csv")

NextCsv == ModerateCSVCall
SpecCsv == InitCsv /\ [][NextCsv]_vars


(***************************************************************************)
(* Properties of the CSV moderate tier                                     *)
(***************************************************************************)
CsvReturned == csPc = "returned"

\* the columns whose header field received the given suffix in a step
Suffixed(before, after, suffix) ==
    {c \in DOMAIN before : after[c] = before[c] \o suffix}

DeltaColumns ==
    IF CsvReturned
    THEN Suffixed(csHeader, csOut.deltaEncodedColumns.header, DeltaSuffix)
    ELSE {}

RECURSIVE CumulativeSum(_, _)
CumulativeSum(column, i) ==
    IF i = 1 THEN parseFloat(column[1])
    ELSE Plus(CumulativeSum(column, i - 1), parseFloat(column[i]))

\* |a - b| <= 0.01
WithinHundredth(a, b) ==
    \/ ~isNaN(a) /\ a = b
    \/ ~isNaN(Minus(a, b)) /\ ~ExceedsHundredth(Minus(a, b))

\* C11: for every delta-encoded column, whatever the options (rounding
\* switched off included), the base value of row 0 plus the running sum of
\* the emitted deltas is within 0.01 of the value the row held before the
\* moderate steps changed it.
C11_DeltasReconstructOriginal ==
    \A c \in DeltaColumns : \A i \in DOMAIN csOut.uniqueRows :
        WithinHundredth(
            CumulativeSum(ColumnOf(csOut.deltaEncodedColumns.dataLines, c), i),
            parseFloat(csOut.uniqueRows[i][c]))


\* the table the dictionary step receives, and the columns it encoded
DictionaryInput == csOut.deltaEncodedColumns

DictionaryColumns ==
    IF CsvReturned
    THEN Suffixed(DictionaryInput.header, csOut.dictionaryResult.header, "(D)")
    ELSE {}

DictionaryOperations ==
    IF CsvReturned
    THEN {csOut.operations[k] : k \in {j \in DOMAIN csOut.operations :
                                          csOut.operations[j].type = "dictionary_encoding"}}
    ELSE {}

\* the fields of an operation that hold a scalar summary
SummaryFields ==
    {"type", "count", "columns", "unique_values_saved", "decimals",
     "reversible", "impact", "description"}

\* table maps every code of column c in the output back to the cell it replaced
Decodes(table, c) ==
    \A i \in DOMAIN csOut.dictionaryResult.dataLines :
        LET code == csOut.dictionaryResult.dataLines[i][c]
        IN  code \in DOMAIN table /\ table[code] = DictionaryInput.dataLines[i][c]

\* C12: for every dictionary-encoded column, the dictionary_encoding
\* operation of the result carries a reverse dictionary that has an entry for
\* every code of the column in the output and maps it back to the cell string
\* it replaced.
C12_OperationCarriesReverseDictionary ==
    \A c \in DictionaryColumns :
        \E op \in DictionaryOperations :
            \E f \in DOMAIN op \ SummaryFields :
                \E table \in RangeOf(op[f]) : Decodes(table, c)

\* the number of distinct values of the column that sort before value
LexicographicCode(column, value) ==
    Cardinality({u \in RangeOf(column) : Rank(u) < Rank(value)})

DictionaryRan == CsvReturned /\ csOptions.dictionaryEncoding /\ Len(DictionaryInput.dataLines) > 1

\* C18: a column that is not fully numeric is dictionary-encoded exactly
\* when its distinct values number at least 3, fewer than the rows and fewer
\* than 0.8 of the rows; an encoded column holds, for every cell, the rank
\* 0, 1, 2, ... of the cell among the distinct values in lexicographic order,
\* and its header field ends in (D).
C18_DictionaryConditionAndCodes ==
    DictionaryRan =>
        \A c \in DOMAIN DictionaryInput.header :
            LET column == ColumnOf(DictionaryInput.dataLines, c)
                distinct == Cardinality(RangeOf(column))
                rows == Len(column)
                encoded == csOut.dictionaryResult.dataLines # DictionaryInput.dataLines
                            /\ ColumnOf(csOut.dictionaryResult.dataLines, c) # column
            IN  (\E i \in DOMAIN column : column[i] # "" /\ isNaN(parseFloat(column[i])))
                => /\ encoded <=> (distinct >= 3 /\ distinct < rows /\ 10 * distinct < 8 * rows)
                   /\ encoded =>
                        /\ c \in DictionaryColumns
                        /\ \A i \in DOMAIN column :
                              csOut.dictionaryResult.dataLines[i][c]
                                  = Numeral(LexicographicCode(column, column[i]))

\* C19: no column is both delta-encoded and dictionary-encoded, and no
\* header field carries the delta suffix followed by (D).
C19_NeverBothEncodings ==
    CsvReturned =>
        /\ DeltaColumns \cap DictionaryColumns = {}
        /\ \A c \in DOMAIN csHeader :
              csOut.header[c] # csHeader[c] \o DeltaSuffix \o "(D)"


(***************************************************************************)
(* The short-name generators: generateShortKey of the JSON engine,         *)
(* getShortAlias of the SQL engine and getShortName of the JavaScript      *)
(* engine.                                                                 *)
(***************************************************************************)
MaxIndex == 140

Lower ==
    <<"a", "b", "c", "d", "e", "f", "g", "h", "i", "j", "k", "l", "m",
      "n", "o", "p", "q", "r", "s", "t", "u", "v", "w", "x", "y", "z">>
Upper ==
    <<"A", "B", "C", "D", "E", "F", "G", "H", "I", "J", "K", "L", "M",
      "N", "O", "P", "Q", "R", "S", "T", "U", "V", "W", "X", "Y", "Z">>

\* '0123456789abcdefghijklmnopqrstuvwxyzABCDEFGHIJKLMNOPQRSTUVWXYZ'
Base62Chars == Digits \o Lower \o Upper

\* the do-while loop of generateShortKey: result += chars[remaining % 62]
RECURSIVE AppendBase62(_, _)
AppendBase62(result, remaining) ==
    LET next == result \o Base62Chars[(remaining % Len(Base62Chars)) + 1]
        rest == remaining \div Len(Base62Chars)
    IN  IF rest > 0 THEN AppendBase62(next, rest) ELSE next

generateShortKey(index) ==
    IF index < Len(Base62Chars) THEN Base62Chars[index + 1]
    ELSE AppendBase62("|", index - Len(Base62Chars))

\* the do-while loop of getShortAlias and getShortName:
\* name = chars[num % 26] + name
RECURSIVE PrependBase26(_, _)
PrependBase26(name, num) ==
    LET next == Lower[(num % Len(Lower)) + 1] \o name
        rest == num \div Len(Lower)
    IN  IF rest > 0 THEN PrependBase26(next, rest) ELSE next

getShortAlias(index) == PrependBase26("", index)
getShortName(index) == PrependBase26("", index)

InitNames ==
    /\ nmPc = "idle"
    /\ nmIndex \in 0..MaxIndex
    /\ nmOut = None
    /\ IdleBut("names")

Returns(function, name) ==
    /\ nmPc = "idle"
    /\ nmOut' = [function |-> function, name |-> name]
    /\ nmPc' = "returned"
    /\ UNCHANGED nmIndex
    /\ Frame("names")

GenerateShortKeyCall == Returns("generateShortKey", generateShortKey(nmIndex))
GetShortAliasCall == Returns("getShortAlias", getShortAlias(nmIndex))
GetShortNameCall == Returns("getShortName", getShortName(nmIndex))

NextNames == GenerateShortKeyCall \/ GetShortAliasCall \/ GetShortNameCall
SpecNames == InitNames /\ [][NextNames]_vars

Returned_(function) == nmPc = "returned" /\ nmOut.function = function

\* C14: generateShortKey maps rank 0..61 to the characters of
\* 0-9a-zA-Z in order, rank 62 to "|a" and rank 63 to "|b", and gives
\* distinct ranks distinct codes.
C14_ShortKeyAlphabetAndOverflow ==
    Returned_("generateShortKey") =>
        /\ nmIndex < Len(Base62Chars) => nmOut.name = Base62Chars[nmIndex + 1]
        /\ nmIndex = Len(Base62Chars) => nmOut.name = "|a"
        /\ nmIndex = Len(Base62Chars) + 1 => nmOut.name = "|b"
        /\ \A other \in 0..MaxIndex :
              other # nmIndex => generateShortKey(other) # nmOut.name

\* the name the claimed scheme a, ..., z, aa, ab, ... gives an index
RECURSIVE SpreadsheetName(_)
SpreadsheetName(index) ==
    IF index < Len(Lower) THEN Lower[index + 1]
    ELSE SpreadsheetName((index \div Len(Lower)) - 1) \o Lower[(index % Len(Lower)) + 1]

\* C15: getShortAlias and getShortName map index 0..25 to a..z, index 26
\* to aa, index 27 to ab, and so on, and give distinct indices distinct names.
C15_SequentialLetterNames ==
    (Returned_("getShortAlias") \/ Returned_("getShortName")) =>
        /\ nmOut.name = SpreadsheetName(nmIndex)
        /\ \A other \in 0..MaxIndex :
              other # nmIndex => PrependBase26("", other) # nmOut.name


(***************************************************************************)
(* compression/json.js : the tree rewrites of the minimal and moderate     *)
(* tiers on parsed JSON values.  An object holds its members in key order  *)
(* (the order Object.keys lists them); a number is held in thousandths; a  *)
(* string is its length as trim() leaves it and whether it carries         *)
(* surrounding whitespace.                                                 *)
(***************************************************************************)
JsonNull == [kind |-> "null", val |-> 0, items |-> <<>>]
JsonNumber(m) == [kind |-> "number", val |-> m, items |-> <<>>]
JsonString(padded) == [kind |-> "string", val |-> IF padded THEN 1 ELSE 0, items |-> <<>>]
JsonArray(items) == [kind |-> "array", val |-> 0, items |-> items]
JsonObject(members) == [kind |-> "object", val |-> 0, items |-> members]
Member(key, value) == [key |-> key, value |-> value]

\* typeof x === 'object' && x !== null
IsObjectOrArray(x) == x.kind \in {"array", "object"}

\* Array.isArray(x) && x.length === 0, or an object without keys
IsEmptyContainer(x) == IsObjectOrArray(x) /\ x.items = <<>>

Unchanged(x) == [data |-> x, count |-> 0]

RECURSIVE removeNulls(_), removeNullsItems(_), removeNullsMembers(_)
removeNulls(obj) ==
    CASE obj.kind = "array" ->
            LET r == removeNullsItems(obj.items)
            IN  [data |-> JsonArray(r.data), count |-> r.count]
      [] obj.kind = "object" ->
            LET r == removeNullsMembers(obj.items)
            IN  [data |-> JsonObject(r.data), count |-> r.count]
      [] OTHER -> Unchanged(obj)

\* the elements of an array: objects and arrays are visited, a null stays
removeNullsItems(items) ==
    IF items = <<>> THEN Unchanged(<<>>)
    ELSE LET first == IF IsObjectOrArray(Head(items)) THEN removeNulls(Head(items))
                      ELSE Unchanged(Head(items))
             rest == removeNullsItems(Tail(items))
         IN  [data |-> <<first.data>> \o rest.data, count |-> first.count + rest.count]

\* the members of an object: a null member is deleted and counted
removeNullsMembers(members) ==
    IF members = <<>> THEN Unchanged(<<>>)
    ELSE LET m == Head(members)
             rest == removeNullsMembers(Tail(members))
         IN  IF m.value.kind = "null"
             THEN [data |-> rest.data, count |-> 1 + rest.count]
             ELSE LET first == removeNulls(m.value)
                  IN  [data |-> <<Member(m.key, first.data)>> \o rest.data,
                       count |-> first.count + rest.count]

RECURSIVE removeEmpty(_), removeEmptyItems(_), removeEmptyMembers(_)
RECURSIVE removeEmptyMembers_checkBeforeVisit(_)
removeEmpty(obj) ==
    CASE obj.kind = "array" ->
            LET r == removeEmptyItems(obj.items)
            IN  [data |-> JsonArray(r.data), count |-> r.count]
      [] obj.kind = "object" ->
            LET r == removeEmptyMembers(obj.items)
            IN  [data |-> JsonObject(r.data), count |-> r.count]
      [] OTHER -> Unchanged(obj)

\* the elements of an array are visited, none is removed
removeEmptyItems(items) ==
    IF items = <<>> THEN Unchanged(<<>>)
    ELSE LET first == removeEmpty(Head(items))
             rest == removeEmptyItems(Tail(items))
         IN  [data |-> <<first.data>> \o rest.data, count |-> first.count + rest.count]

\* the emptiness test made before the member is visited
removeEmptyMembers_checkBeforeVisit(members) ==
    IF members = <<>> THEN Unchanged(<<>>)
    ELSE LET m == Head(members)
             rest == removeEmptyMembers_checkBeforeVisit(Tail(members))
         IN  IF IsEmptyContainer(m.value)
             THEN [data |-> rest.data, count |-> 1 + rest.count]
             ELSE LET first == removeEmpty(m.value)
                  IN  [data |-> <<Member(m.key, first.data)>> \o rest.data,
                       count |-> first.count + rest.count]

\* a member is visited first and deleted if the visit leaves it (or found it)
\* an empty array or an empty object
removeEmptyMembers(members) ==
    IF members = <<>> THEN Unchanged(<<>>)
    ELSE LET m == Head(members)
             first == removeEmpty(m.value)
             rest == removeEmptyMembers(Tail(members))
         IN  IF IsEmptyContainer(first.data)
             THEN [data |-> rest.data, count |-> first.count + 1 + rest.count]
             ELSE [data |-> <<Member(m.key, first.data)>> \o rest.data,
                   count |-> first.count + rest.count]

RECURSIVE trimStrings(_), trimStringsItems(_)
\* a string with surrounding whitespace is replaced by its trim() and counted
trimStrings(obj) ==
    CASE obj.kind = "string" /\ obj.val = 1 -> [data |-> JsonString(FALSE), count |-> 1]
      [] IsObjectOrArray(obj) ->
            LET r == trimStringsItems(obj.items)
            IN  [data |-> [obj EXCEPT !.items = r.data], count |-> r.count]
      [] OTHER -> Unchanged(obj)

\* the elements of an array or the members of an object
trimStringsItems(items) ==
    IF items = <<>> THEN Unchanged(<<>>)
    ELSE LET x == Head(items)
             isMember == "key" \in DOMAIN x
             first == trimStrings(IF isMember THEN x.value ELSE x)
             rest == trimStringsItems(Tail(items))
         IN  [data |-> <<IF isMember THEN Member(x.key, first.data) ELSE first.data>> \o rest.data,
              count |-> first.count + rest.count]


\* collectKeyFrequencies: the keys of the tree in the order the walk meets
\* them, every occurrence listed
RECURSIVE collectKeys(_), collectKeysItems(_)
collectKeys(obj) == IF IsObjectOrArray(obj) THEN collectKeysItems(obj.items) ELSE <<>>

collectKeysItems(items) ==
    IF items = <<>> THEN <<>>
    ELSE LET x == Head(items)
         IN  (IF "key" \in DOMAIN x THEN <<x.key>> \o collectKeys(x.value) ELSE collectKeys(x))
                \o collectKeysItems(Tail(items))

\* keyFrequency[key], and the position at which the key was inserted into
\* keyFrequency
Frequency(occurrences, key) ==
    Cardinality({i \in DOMAIN occurrences : occurrences[i] = key})

Inserted(occurrences, key) == CHOOSE i \in DOMAIN occurrences :
    occurrences[i] = key /\ \A j \in 1..(i - 1) : occurrences[j] # key

\* a single digit is an integer-like property name: such keys are listed
\* first, in ascending order, whenever they were created
IsIntegerLike(key) == \E d \in DOMAIN Digits : Digits[d] = key
DigitOf(key) == CHOOSE d \in DOMAIN Digits : Digits[d] = key

\* Object.entries(keyFrequency) lists a before b
ListedBefore(occurrences, a, b) ==
    IF IsIntegerLike(a)
    THEN ~IsIntegerLike(b) \/ DigitOf(a) < DigitOf(b)
    ELSE ~IsIntegerLike(b) /\ Inserted(occurrences, a) < Inserted(occurrences, b)

\* the comparator of the sort puts a before b: higher frequency first, then
\* the longer key; the sort is stable
SortsBefore(occurrences, a, b) ==
    LET fa == Frequency(occurrences, a)
        fb == Frequency(occurrences, b)
    IN  \/ fa > fb
        \/ fa = fb /\ Len(a) > Len(b)
        \/ fa = fb /\ Len(a) = Len(b) /\ ListedBefore(occurrences, a, b)

\* keyMap: every key of the tree, mapped to generateShortKey(its rank)
keyMapOf(obj) ==
    LET occurrences == collectKeys(obj)
        keys == RangeOf(occurrences)
    IN  [key \in keys |->
            generateShortKey(Cardinality({k \in keys : SortsBefore(occurrences, k, key)}))]

\* shortKey && shortKey.length < key.length
Replaces(keyMap, key) == Len(keyMap[key]) < Len(key)

\* obj[key] = value on the members of an object, which are listed with the
\* integer-like keys first, in ascending order, and the other keys in the
\* order they were created: an existing member keeps its place
Assign(members, key, value) ==
    IF \E i \in DOMAIN members : members[i].key = key
    THEN [i \in DOMAIN members |->
            IF members[i].key = key THEN Member(key, value) ELSE members[i]]
    ELSE IF IsIntegerLike(key)
    THEN LET before == {i \in DOMAIN members :
                          /\ IsIntegerLike(members[i].key)
                          /\ DigitOf(members[i].key) < DigitOf(key)}
         IN  Pick(members, before) \o <<Member(key, value)>>
                \o Pick(members, DOMAIN members \ before)
    ELSE Append(members, Member(key, value))

\* delete obj[key]
Delete(members, key) == SelectSeq(members, LAMBDA m : m.key # key)

\* obj[key]
ValueOf(members, key) == (CHOOSE m \in RangeOf(members) : m.key = key).value

\* the second pass of shortenKeys, which walks the keys the object had on
\* entry: a replaced member is assigned under its short key, deleted under
\* its own, and visited; a member that keeps its key is visited
RECURSIVE applyKeyMap(_, _), applyKeyMapKeys(_, _, _)
applyKeyMap(obj, keyMap) ==
    CASE obj.kind = "array" ->
            JsonArray([i \in DOMAIN obj.items |-> applyKeyMap(obj.items[i], keyMap)])
      [] obj.kind = "object" ->
            JsonObject(applyKeyMapKeys(obj.items,
                                       [i \in DOMAIN obj.items |-> obj.items[i].key], keyMap))
      [] OTHER -> obj

applyKeyMapKeys(members, keys, keyMap) ==
    IF keys = <<>> THEN members
    ELSE LET Visited(key) == applyKeyMap(ValueOf(members, key), keyMap)
             Replaced(key) ==
                IF Replaces(keyMap, key)
                THEN Delete(Assign(members, keyMap[key], Visited(key)), key)
                ELSE Assign(members, key, Visited(key))
         IN  applyKeyMapKeys(Replaced(Head(keys)), Tail(keys), keyMap)

shortenKeys(obj) == [data |-> applyKeyMap(obj, keyMapOf(obj)), keyMap |-> keyMapOf(obj)]


\* roundNumbers(data, decimals) on a tree with keyed members
RECURSIVE roundKeyed(_, _), roundKeyedItems(_, _)
roundKeyed(obj, decimals) ==
    CASE obj.kind = "number" /\ ~IsInteger(obj.val) ->
            [data |-> JsonNumber(toFixed(obj.val, decimals)), count |-> 1]
      [] IsObjectOrArray(obj) ->
            LET r == roundKeyedItems(obj.items, decimals)
            IN  [data |-> [obj EXCEPT !.items = r.data], count |-> r.count]
      [] OTHER -> Unchanged(obj)

roundKeyedItems(items, decimals) ==
    IF items = <<>> THEN Unchanged(<<>>)
    ELSE LET x == Head(items)
             isMember == "key" \in DOMAIN x
             first == roundKeyed(IF isMember THEN x.value ELSE x, decimals)
             rest == roundKeyedItems(Tail(items), decimals)
         IN  [data |-> <<IF isMember THEN Member(x.key, first.data) ELSE first.data>> \o rest.data,
              count |-> first.count + rest.count]

\* [...new Set(obj.map(item => JSON.stringify(item)))]: the first occurrence
\* of every serialisation; two values serialise alike exactly when they have
\* the same members in the same order
uniqueItems(items) ==
    Pick(items, {i \in DOMAIN items : \A j \in 1..(i - 1) : items[j] # items[i]})

RECURSIVE deduplicateArrays(_), deduplicateItems(_)
\* an array is reduced to its unique elements first; the elements are
\* visited afterwards
deduplicateArrays(obj) ==
    CASE obj.kind = "array" ->
            LET unique == uniqueItems(obj.items)
                r == deduplicateItems(unique)
            IN  [data |-> JsonArray(r.data),
                 count |-> (Len(obj.items) - Len(unique)) + r.count]
      [] obj.kind = "object" ->
            LET r == deduplicateItems(obj.items)
            IN  [data |-> JsonObject(r.data), count |-> r.count]
      [] OTHER -> Unchanged(obj)

deduplicateItems(items) ==
    IF items = <<>> THEN Unchanged(<<>>)
    ELSE LET x == Head(items)
             isMember == "key" \in DOMAIN x
             first == deduplicateArrays(IF isMember THEN x.value ELSE x)
             rest == deduplicateItems(Tail(items))
         IN  [data |-> <<IF isMember THEN Member(x.key, first.data) ELSE first.data>> \o rest.data,
              count |-> first.count + rest.count]

\* an operation record as the JSON tiers push it, or nothing when the
\* count is 0
Pushed(count, operation) == IF count > 0 THEN <<operation>> ELSE <<>>

\* applyMinimalCompression(data, operations, customOptions) of the JSON engine
applyMinimalJSON(data, options) ==
    LET nulls == IF options.removeNulls THEN removeNulls(data) ELSE Unchanged(data)
        empty == removeEmpty(nulls.data)
        trimmed == trimStrings(empty.data)
    IN  [data |-> trimmed.data,
         operations |->
            Pushed(nulls.count, [type |-> "remove_nulls", count |-> nulls.count,
                                 reversible |-> TRUE, impact |-> "low"])
            \o Pushed(empty.count, [type |-> "remove_empty", count |-> empty.count,
                                    reversible |-> TRUE, impact |-> "low"])
            \o Pushed(trimmed.count, [type |-> "trim_strings", count |-> trimmed.count,
                                      reversible |-> FALSE, impact |-> "low"]),
         keyMap |-> <<>>]

\* applyModerateCompression(data, operations, customOptions) of the JSON engine
applyModerateJSON(data, options) ==
    LET minimal == applyMinimalJSON(data, options)
        shortened == IF options.shortenKeys THEN shortenKeys(minimal.data)
                     ELSE [data |-> minimal.data, keyMap |-> <<>>]
        mapped == Cardinality(DOMAIN shortened.keyMap)
        rounded == roundKeyed(shortened.data, 2)
        deduped == deduplicateArrays(rounded.data)
    IN  [data |-> deduped.data,
         operations |->
            minimal.operations
            \o Pushed(mapped, [type |-> "shorten_keys", count |-> mapped,
                               reversible |-> TRUE, impact |-> "medium"])
            \o Pushed(rounded.count, [type |-> "round_numbers", decimals |-> 2,
                                      count |-> rounded.count,
                                      reversible |-> FALSE, impact |-> "medium"])
            \o Pushed(deduped.count, [type |-> "deduplicate_arrays", count |-> deduped.count,
                                      reversible |-> FALSE, impact |-> "medium"]),
         keyMap |-> shortened.keyMap]


\* ---- the values and option settings of the calls ----
MaxArrayNodes == 6

\* the sequences of m distinct keys
KeySequences(keys, m) ==
    {ks \in [1..m -> keys] : \A i, j \in 1..m : i # j => ks[i] # ks[j]}

RECURSIVE JsonTreesOfSize(_, _, _), JsonItemsOfSize(_, _, _)
\* the values with n nodes over the given leaves and keys
JsonTreesOfSize(n, leaves, keys) ==
    IF n = 1 THEN leaves \cup {JsonArray(<<>>), JsonObject(<<>>)}
    ELSE {JsonArray(items) : items \in JsonItemsOfSize(n - 1, leaves, keys)}
         \cup UNION {{JsonObject([i \in DOMAIN items |-> Member(ks[i], items[i])]) :
                        ks \in KeySequences(keys, Len(items))} :
                     items \in JsonItemsOfSize(n - 1, leaves, keys)}

\* the non-empty sequences of values with n nodes in all
JsonItemsOfSize(n, leaves, keys) ==
    UNION {{<<t>> \o rest : t \in JsonTreesOfSize(k, leaves, keys),
                            rest \in IF k = n THEN {<<>>}
                                     ELSE JsonItemsOfSize(n - k, leaves, keys)} :
           k \in 1..n}

JsonLeaves ==
    {JsonNull, JsonNumber(1000), JsonNumber(2718), JsonString(FALSE), JsonString(TRUE)}
JsonKeys == {"name", "id"}

\* documents of up to size values: null, 1, 2.718, "x", " x ", arrays
\* and objects with the keys name and id
JsonDocuments(size) == UNION {JsonTreesOfSize(n, JsonLeaves, JsonKeys) : n \in 1..size}

\* arrays of arrays and of the number 1, of up to size values
ArrayDocuments(size) ==
    UNION {JsonTreesOfSize(n, {JsonNumber(1000)}, {}) : n \in 1..size}

JsonOptionKeys == {"removeNulls", "shortenKeys"}

\* customOptions: {} or one of the gates set to false
JsonOptionSettings == {[k \in JsonOptionKeys |-> k # off] : off \in JsonOptionKeys \cup {None}}

InitJson ==
    /\ jsPc = "idle"
    /\ jsData \in JsonDocuments(MaxNodes)
    /\ jsOptions \in JsonOptionSettings
    /\ jsOut = None
    /\ IdleBut("json")

InitJsonArrays ==
    /\ jsPc = "idle"
    /\ jsData \in ArrayDocuments(MaxArrayNodes)
    /\ jsOptions = [k \in JsonOptionKeys |-> TRUE]
    /\ jsOut = None
    /\ IdleBut("json")

JsonReturns(level, result) ==
    /\ jsPc = "idle"
    /\ jsOut' = [level |-> level, data |-> result.data, operations |-> result.operations]
    /\ jsPc' = "returned"
    /\ UNCHANGED <<jsData, jsOptions>>
    /\ Frame("json")

\* compressJSON reaches case 'minimal' / case 'moderate' with the parsed value
MinimalJSONCall == JsonReturns("minimal", applyMinimalJSON(jsData, jsOptions))
ModerateJSONCall == JsonReturns("moderate", applyModerateJSON(jsData, jsOptions))

NextJson == MinimalJSONCall \/ ModerateJSONCall
SpecJson == InitJson /\ [][NextJson]_vars
SpecJsonArrays == InitJsonArrays /\ [][NextJson]_vars

JsonReturned(level) == jsPc = "returned" /\ jsOut.level = level


(***************************************************************************)
(* Properties of the JSON tree rewrites                                    *)
(***************************************************************************)
OperationsOfType(operations, type) ==
    {operations[k] : k \in {j \in DOMAIN operations : operations[j].type = type}}

Injective(f) == \A a, b \in DOMAIN f : a # b => f[a] # f[b]

\* C13: when moderate shortened keys, the shorten_keys operation records
\* the whole key-to-code mapping in its mapping field, the mapping is
\* injective, and every key of the output that is not a key of the input is
\* a code of that mapping.
C13_KeyMappingRecorded ==
    JsonReturned("moderate") =>
        \A op \in OperationsOfType(jsOut.operations, "shorten_keys") :
            /\ "mapping" \in DOMAIN op
            /\ Injective(op.mapping)
            /\ DOMAIN op.mapping = RangeOf(collectKeys(applyMinimalJSON(jsData, jsOptions).data))
            /\ \A key \in RangeOf(collectKeys(jsOut.data)) :
                  key \in RangeOf(collectKeys(jsData))
                      \/ \E original \in DOMAIN op.mapping : op.mapping[original] = key

\* structural equality: arrays element by element, objects member by member
\* whatever the order of their keys
RECURSIVE DeepEqual(_, _)
DeepEqual(a, b) ==
    CASE a.kind # b.kind -> FALSE
      [] a.kind = "array" ->
            /\ Len(a.items) = Len(b.items)
            /\ \A i \in DOMAIN a.items : DeepEqual(a.items[i], b.items[i])
      [] a.kind = "object" ->
            /\ Len(a.items) = Len(b.items)
            /\ \A i \in DOMAIN a.items : \E j \in DOMAIN b.items :
                  /\ a.items[i].key = b.items[j].key
                  /\ DeepEqual(a.items[i].value, b.items[j].value)
      [] OTHER -> a = b

RECURSIVE NoEqualElements(_)
NoEqualElements(obj) ==
    CASE obj.kind = "array" ->
            /\ \A i, j \in DOMAIN obj.items : i < j => ~DeepEqual(obj.items[i], obj.items[j])
            /\ \A i \in DOMAIN obj.items : NoEqualElements(obj.items[i])
      [] obj.kind = "object" ->
            \A i \in DOMAIN obj.items : NoEqualElements(obj.items[i].value)
      [] OTHER -> TRUE

\* C16: after moderate compression no array at any depth holds two deep-equal
\* elements, and an array of numbers keeps the first occurrence of each
\* number in the order of the input.
C16_ArraysHoldNoEqualElements ==
    JsonReturned("moderate") =>
        /\ NoEqualElements(jsOut.data)
        /\ (jsData.kind = "array" /\ \A i \in DOMAIN jsData.items : jsData.items[i].kind = "number")
              => jsOut.data.items = uniqueItems(roundKeyed(jsData, 2).data.items)

RECURSIVE NoEmptyMember(_)
NoEmptyMember(obj) ==
    CASE obj.kind = "array" -> \A i \in DOMAIN obj.items : NoEmptyMember(obj.items[i])
      [] obj.kind = "object" ->
            \A i \in DOMAIN obj.items :
                /\ obj.items[i].value.kind # "null"
                /\ ~IsEmptyContainer(obj.items[i].value)
                /\ NoEmptyMember(obj.items[i].value)
      [] OTHER -> TRUE

\* the number of object members in the tree, and of those holding null
RECURSIVE Members(_, _)
Members(obj, onlyNull) ==
    CASE obj.kind = "array" ->
            LET count[i \in 0..Len(obj.items)] ==
                    IF i = 0 THEN 0 ELSE count[i - 1] + Members(obj.items[i], onlyNull)
            IN  count[Len(obj.items)]
      [] obj.kind = "object" ->
            LET count[i \in 0..Len(obj.items)] ==
                    IF i = 0 THEN 0
                    ELSE count[i - 1] + Members(obj.items[i].value, onlyNull)
                            + (IF onlyNull /\ obj.items[i].value.kind # "null" THEN 0 ELSE 1)
            IN  count[Len(obj.items)]
      [] OTHER -> 0

LoggedCount(operations, type) ==
    IF OperationsOfType(operations, type) = {} THEN 0
    ELSE (CHOOSE op \in OperationsOfType(operations, type) : TRUE).count

DefaultJsonOptions == \A k \in JsonOptionKeys : jsOptions[k]

\* C17: after one minimal pass with default options no object member at any
\* depth holds null, an empty array or an empty object, also where the member
\* became empty through the removal of its own children, and the count of
\* remove_empty is the number of members removed besides the null members.
C17_MinimalCollapsesEmptyCascades ==
    (JsonReturned("minimal") /\ DefaultJsonOptions) =>
        /\ NoEmptyMember(jsOut.data)
        /\ LoggedCount(jsOut.operations, "remove_empty")
              = Members(jsData, FALSE) - Members(jsData, TRUE) - Members(jsOut.data, FALSE)

\* a member that was not empty in the input is gone because its only child
\* was removed, and the root is left empty
C17_Witness ==
    /\ JsonReturned("minimal") /\ DefaultJsonOptions
    /\ jsData.kind = "object"
    /\ \E i \in DOMAIN jsData.items :
          /\ jsData.items[i].value.kind = "object"
          /\ jsData.items[i].value.items # <<>>
    /\ jsOut.data = JsonObject(<<>>)
    /\ LoggedCount(jsOut.operations, "remove_empty") >= 2


(***************************************************************************)
(* The SQL engine (compression/sql.js): applyModerateSQLCompression on     *)
(* scripts of statements.  A script is the sequence of its lexical tokens:  *)
(* words, the delimiters ( ) , ; , white space and line comments, so that  *)
(* the regular expressions of the engine are matched token by token.  The  *)
(* scripts hold no AS alias, no OUTER JOIN, no public. qualifier and no    *)
(* CASCADE: the alias and optional-keyword steps (sql.js:125-179) find      *)
(* nothing to replace in them and log nothing.                             *)
(***************************************************************************)
MaxStatements == 4

NewLine == "\n"
Whitespace == {" ", NewLine}
Delimiters == {"(", ")", ",", ";"}
LineComment == "-- note"

\* the text past either end of the script
At(s, k) == IF k \in 1..Len(s) THEN s[k] ELSE ""

\* the tokens of s at the positions kept, in their order
AtPositions(s, kept) ==
    LET numbered == [i \in DOMAIN s |-> <<i, s[i]>>]
        chosen == SelectSeq(numbered, LAMBDA pair : pair[1] \in kept)
    IN [i \in DOMAIN chosen |-> chosen[i][2]]

\* String.prototype.length of the text the tokens spell
RECURSIVE LengthOver(_, _)
LengthOver(s, tokens) ==
    IF tokens = {} THEN 0
    ELSE LET token == CHOOSE t \in tokens : TRUE
         IN Len(token) * Cardinality({i \in DOMAIN s : s[i] = token})
            + LengthOver(s, tokens \ {token})
Length(s) == LengthOver(s, {s[i] : i \in DOMAIN s})

\* the upper-case spellings of the scripts and their lower-case forms
LowerCase ==
    [INSERT |-> "insert", INTO |-> "into", VALUES |-> "values",
     SELECT |-> "select", EXPLAIN |-> "explain"]
toLowerCase(token) == IF token \in DOMAIN LowerCase THEN LowerCase[token] ELSE token

\* const keywords of applyModerateSQLCompression, in lower case
keywords ==
    {"select", "from", "where", "insert", "update", "delete", "create", "drop",
     "table", "database", "index", "view", "join", "inner", "left", "right",
     "on", "and", "or", "not", "null", "as", "order", "by", "group", "having",
     "limit", "offset", "distinct", "count", "sum", "avg", "max", "min"}

\* replace(/--.*$/gm, ''): a line comment goes, the line break after it stays
removeComments(s) == SelectSeq(s, LAMBDA token : token # LineComment)

\* replace(/\s+/g, ' '): every run of white space becomes one blank
collapseWhitespace(s) ==
    LET first == {i \in DOMAIN s : s[i] \in Whitespace => At(s, i - 1) \notin Whitespace}
        runs == AtPositions(s, first)
    IN [i \in DOMAIN runs |-> IF runs[i] \in Whitespace THEN " " ELSE runs[i]]

\* replace(/\s*([(),;])\s*/g, '$1'): the blanks next to a delimiter go
removeAroundDelimiters(s) ==
    AtPositions(s, {i \in DOMAIN s :
                      \/ s[i] \notin Whitespace
                      \/ /\ At(s, i - 1) \notin Delimiters
                         /\ At(s, i + 1) \notin Delimiters})

\* String.prototype.trim
RECURSIVE trim(_)
trim(s) ==
    IF s = <<>> THEN <<>>
    ELSE IF Head(s) \in Whitespace THEN trim(Tail(s))
    ELSE IF s[Len(s)] \in Whitespace THEN trim(SubSeq(s, 1, Len(s) - 1))
    ELSE s

\* applyMinimalSQLCompression(sql, operations, customOptions)
applyMinimalSQL(sql, options) ==
    LET Spaced(operations, uncommented, compressed) ==
            [compressed |-> compressed,
             operations |->
                operations
                \o (IF Length(compressed) < Length(uncommented)
                    THEN <<[type |-> "remove_whitespace",
                            count |-> Length(uncommented) - Length(compressed)]>>
                    ELSE <<>>)]
        Uncommented(uncommented) ==
            Spaced(IF Length(uncommented) < Length(sql)
                   THEN <<[type |-> "remove_comments", count |-> 1]>> ELSE <<>>,
                   uncommented,
                   trim(removeAroundDelimiters(collapseWhitespace(uncommented))))
    IN Uncommented(IF options.removeComments THEN removeComments(sql) ELSE sql)

\* keywords.forEach: replace(new RegExp(`\\b${keyword}\\b`, 'gi'), keyword.toLowerCase())
lowercaseKeywords(s) ==
    [i \in DOMAIN s |-> IF toLowerCase(s[i]) \in keywords THEN toLowerCase(s[i]) ELSE s[i]]

\* the first position from k on that holds no white space
Skip(s, k) ==
    IF \E j \in k..Len(s) : s[j] \notin Whitespace
    THEN CHOOSE j \in k..Len(s) :
            s[j] \notin Whitespace /\ \A h \in k..(j - 1) : s[h] \in Whitespace
    ELSE Len(s) + 1

\* the first position from k on that holds a closing parenthesis
Close(s, k) ==
    IF \E j \in k..Len(s) : s[j] = ")"
    THEN CHOOSE j \in k..Len(s) : s[j] = ")" /\ \A h \in k..(j - 1) : s[h] # ")"
    ELSE Len(s) + 1

\* replace(/\bEXPLAIN\s+/gi, ''): the word and the white space after it
removeExplain(s) ==
    LET explains == {i \in DOMAIN s :
                        toLowerCase(s[i]) = "explain" /\ At(s, i + 1) \in Whitespace}
        removed == explains \cup {j \in DOMAIN s :
                                    \E i \in explains : j > i /\ j < Skip(s, i + 1)}
    IN AtPositions(s, DOMAIN s \ removed)

\* insertPattern matched at position i of the text: where the match ends,
\* the table name (group 1) and the first value list (group 2)
\*   /insert into\s+(\w+)\s*\([^)]*\)\s*values\s*\(([^)]+)\);
\*    insert into\s+\1\s*\([^)]*\)\s*values\s*\(/gi
\* The positions are 0 where a part of the pattern does not match.
insertPattern(s, i) ==
    LET Is(k, word) == toLowerCase(At(s, k)) = word
        \* insert into\s+(\w+) from k on: the position of the name
        Name(k) ==
            IF /\ Is(k, "insert") /\ At(s, k + 1) = " " /\ Is(k + 2, "into")
               /\ At(s, k + 3) \in Whitespace
               /\ At(s, Skip(s, k + 3)) \notin Whitespace \cup Delimiters \cup {""}
            THEN Skip(s, k + 3) ELSE 0
        \* \s*\([^)]*\) after the name: the position of the closing parenthesis
        Columns(name) ==
            IF name # 0 /\ At(s, Skip(s, name + 1)) = "("
                        /\ Close(s, Skip(s, name + 1) + 1) <= Len(s)
            THEN Close(s, Skip(s, name + 1) + 1) ELSE 0
        \* \s*values\s*\( after the column list: the position of the parenthesis
        Values(columns) ==
            IF columns # 0 /\ Is(Skip(s, columns + 1), "values")
                           /\ At(s, Skip(s, Skip(s, columns + 1) + 1)) = "("
            THEN Skip(s, Skip(s, columns + 1) + 1) ELSE 0
        \* ([^)]+)\); after the parenthesis: the position of the closing one
        Tuple(values) ==
            IF values # 0 /\ Close(s, values + 1) \in (values + 2)..Len(s)
                          /\ At(s, Close(s, values + 1) + 1) = ";"
            THEN Close(s, values + 1) ELSE 0
        \* insert into\s+\1 after the semicolon
        Again(tuple, table) ==
            IF tuple # 0 /\ toLowerCase(At(s, Name(tuple + 2))) = toLowerCase(table)
            THEN Name(tuple + 2) ELSE 0
        Match(name, values, tuple, end) ==
            IF end # 0
            THEN [matched |-> TRUE, end |-> end, table |-> s[name],
                  firstValues |-> SubSeq(s, values + 1, tuple - 1)]
            ELSE [matched |-> FALSE]
        Second(name, values, tuple) ==
            Match(name, values, tuple, Values(Columns(Again(tuple, At(s, name)))))
        First(name, values) == Second(name, values, Tuple(values))
        Start(name) == First(name, Values(Columns(name)))
    IN Start(Name(i))

\* compressed.replace(insertPattern, (match, table, firstValues) =>
\*     `insert into ${table} values(${firstValues}),(`), from position i on
RECURSIVE replaceInserts(_, _)
replaceInserts(s, i) ==
    LET Replaced(j, match, rest) ==
            [compressed |->
                SubSeq(s, i, j - 1)
                \o <<"insert", " ", "into", " ", match.table, " ", "values", "(">>
                \o match.firstValues \o <<")", ",", "(">> \o rest.compressed,
             combined |-> rest.combined + 1]
        Matched(j, match) == Replaced(j, match, replaceInserts(s, match.end + 1))
        Leftmost(matches) ==
            IF matches = {} THEN [compressed |-> SubSeq(s, i, Len(s)), combined |-> 0]
            ELSE Matched(CHOOSE m \in matches : \A other \in matches : m <= other,
                         insertPattern(s, CHOOSE m \in matches :
                                                \A other \in matches : m <= other))
    IN Leftmost({j \in i..Len(s) : insertPattern(s, j).matched})

\* do { ... } while (compressed.length < previousLength)
RECURSIVE combineInserts(_, _)
combineInserts(s, combined) ==
    LET Again(pass) ==
            IF Length(pass.compressed) < Length(s)
            THEN combineInserts(pass.compressed, combined + pass.combined)
            ELSE [compressed |-> pass.compressed, combined |-> combined + pass.combined]
    IN Again(replaceInserts(s, 1))

\* applyModerateSQLCompression(sql, operations, customOptions)
applyModerateSQL(sql, options) ==
    LET Shorter(before, after, type, count) ==
            IF Length(after) < Length(before)
            THEN <<[type |-> type, count |-> count]>> ELSE <<>>
        Combined(operations, inserts) ==
            [compressed |-> inserts.compressed,
             operations |->
                operations
                \o (IF inserts.combined > 0
                    THEN <<[type |-> "combine_insert_statements",
                            count |-> inserts.combined]>>
                    ELSE <<>>)]
        Explained(operations, lowered, explained) ==
            Combined(operations \o Shorter(lowered, explained, "remove_explain", 1),
                     IF options.combineInserts THEN combineInserts(explained, 0)
                     ELSE [compressed |-> explained, combined |-> 0])
        Lowered(operations, compressed, lowered) ==
            Explained(operations \o Shorter(compressed, lowered, "lowercase_keywords",
                                           Cardinality(keywords)),
                      lowered, removeExplain(lowered))
        Minimal(minimal) ==
            Lowered(minimal.operations, minimal.compressed,
                    lowercaseKeywords(minimal.compressed))
    IN Minimal(applyMinimalSQL(sql, options))

\* the statements of the scripts; statement k of a script carries the value k
Targets == {"t", "u"}
StatementKinds == Targets \cup {"bare", "select"}
Statement(kind, k) ==
    IF kind \in Targets
    THEN <<"INSERT", " ", "INTO", " ", kind, " ", "(", "a", ")", " ",
           "VALUES", " ", "(", Numeral(k), ")", ";">>
    ELSE IF kind = "bare"
    THEN <<"INSERT", " ", "INTO", " ", "t", " ", "VALUES", " ", "(", Numeral(k), ")", ";">>
    ELSE <<"EXPLAIN", " ", "SELECT", " ", Numeral(k), ";">>

\* what stands between the statements of a script
Layouts == {"compact", "lines", "commented"}
Separator(layout) ==
    IF layout = "compact" THEN <<>>
    ELSE IF layout = "lines" THEN <<NewLine>>
    ELSE <<" ", LineComment, NewLine>>

RECURSIVE Script(_, _, _)
Script(kinds, layout, k) ==
    IF k > Len(kinds) THEN <<>>
    ELSE Statement(kinds[k], k) \o Separator(layout) \o Script(kinds, layout, k + 1)

SqlOptionKeys == {"removeComments", "combineInserts"}
SqlOptionSettings == [SqlOptionKeys -> BOOLEAN]

InitSql ==
    /\ sqPc = "idle"
    /\ \E n \in 1..MaxStatements, layout \in Layouts :
         \E kinds \in [1..n -> StatementKinds] : sqContent = Script(kinds, layout, 1)
    /\ sqOptions \in SqlOptionSettings
    /\ sqOut = None
    /\ IdleBut("sql")

\* compressSQL(content, 'moderate', customOptions)
ModerateSQLCall ==
    /\ sqPc = "idle"
    /\ sqOut' = applyModerateSQL(sqContent, sqOptions)
    /\ sqPc' = "returned"
    /\ UNCHANGED <<sqContent, sqOptions>>
    /\ Frame("sql")

NextSql == ModerateSQLCall
SpecSql == InitSql /\ [][NextSql]_vars

SqlReturned == sqPc = "returned"


\* the statements of a text: its words and delimiters between the semicolons
StatementsOf(s) ==
    LET words == SelectSeq(s, LAMBDA token : token \notin Whitespace \cup {LineComment})
        ends == {i \in DOMAIN words : words[i] = ";"}
        EndAt(k) == CHOOSE e \in ends : Cardinality({x \in ends : x <= e}) = k
    IN [k \in 1..Cardinality(ends) |->
           SubSeq(words, IF k = 1 THEN 1 ELSE EndAt(k - 1) + 1, EndAt(k) - 1)]

IsInsert(statement) ==
    toLowerCase(At(statement, 1)) = "insert" /\ toLowerCase(At(statement, 2)) = "into"
TableOf(statement) == At(statement, 3)
HasColumnList(statement) == At(statement, 4) = "("

\* the values of the tuples after VALUES, in their order
TuplesOf(statement) ==
    LET values == CHOOSE v \in DOMAIN statement : toLowerCase(statement[v]) = "values"
    IN SelectSeq(SubSeq(statement, values + 1, Len(statement)),
                 LAMBDA token : token \notin Delimiters)

\* statements a..b of the script are single-row INSERTs with a column list
\* into one table
InsertRun(script, a, b) ==
    /\ a < b
    /\ \A k \in a..b :
          /\ IsInsert(script[k]) /\ HasColumnList(script[k])
          /\ TableOf(script[k]) = TableOf(script[a])
          /\ Len(TuplesOf(script[k])) = 1

Contains(tuples, run) ==
    \E offset \in 0..(Len(tuples) - Len(run)) :
        SubSeq(tuples, offset + 1, offset + Len(run)) = run

DefaultSqlOptions == [key \in SqlOptionKeys |-> TRUE]

\* C20: after moderate compression with the default options, every run of
\* two or more consecutive single-row INSERT statements with a column list
\* into one table has become one INSERT statement into that table which
\* carries all the value tuples of the run in their order, and no two
\* adjacent INSERT statements of the output hold tuples of the same run.
C20_ConsecutiveInsertsCombined ==
    (SqlReturned /\ sqOptions = DefaultSqlOptions) =>
        LET script == StatementsOf(sqContent)
            output == StatementsOf(sqOut.compressed)
        IN \A a, b \in DOMAIN script :
              InsertRun(script, a, b) =>
                LET run == [j \in 1..(b - a + 1) |-> TuplesOf(script[a + j - 1])[1]]
                    Holds(k) == /\ IsInsert(output[k])
                                /\ TableOf(output[k]) = TableOf(script[a])
                                /\ \E j \in DOMAIN run :
                                      Contains(TuplesOf(output[k]), <<run[j]>>)
                IN /\ \E k \in DOMAIN output :
                         Holds(k) /\ Contains(TuplesOf(output[k]), run)
                   /\ \A k \in DOMAIN output :
                         ~(Holds(k) /\ k + 1 \in DOMAIN output /\ Holds(k + 1))


(***************************************************************************)
(* The text engine (compression/text.js): applyMinimalTextCompression on   *)
(* texts given as the sequence of their characters.                        *)
(***************************************************************************)
MaxChars == 6

LineFeed == "\n"
CarriageReturn == "\r"
Tab == "\t"
Blanks == {" ", Tab}
\* the line terminators before which $ matches under the m flag
LineTerminators == {LineFeed, CarriageReturn}

\* replace(/\n{3,}/g, '\n\n'): of every run of line feeds the first two stay
collapseBlankLines(text) ==
    AtPositions(text, {i \in DOMAIN text :
                          ~(/\ text[i] = LineFeed
                            /\ At(text, i - 1) = LineFeed
                            /\ At(text, i - 2) = LineFeed)})

\* the first position from k on that holds no blank
PastBlanks(text, k) ==
    IF \E j \in k..Len(text) : text[j] \notin Blanks
    THEN CHOOSE j \in k..Len(text) :
            text[j] \notin Blanks /\ \A h \in k..(j - 1) : text[h] \in Blanks
    ELSE Len(text) + 1

\* replace(/[ \t]+$/gm, ''): the blanks that run up to a line terminator or
\* to the end of the text
removeTrailingWhitespace(text) ==
    AtPositions(text, {i \in DOMAIN text :
                          ~(/\ text[i] \in Blanks
                            /\ At(text, PastBlanks(text, i)) \in LineTerminators \cup {""})})

\* replace(/\r\n/g, '\n')
normalizeLineEndings(text) ==
    AtPositions(text, {i \in DOMAIN text :
                          ~(text[i] = CarriageReturn /\ At(text, i + 1) = LineFeed)})

\* applyMinimalTextCompression(text, operations, customOptions)
applyMinimalText(text, options) ==
    LET Shortened(before, after, type) ==
            IF Len(after) < Len(before)
            THEN <<[type |-> type, count |-> 1, reversible |-> FALSE, impact |-> "low"]>>
            ELSE <<>>
        Trimmed(operations, collapsed, trimmed) ==
            [compressed |-> normalizeLineEndings(trimmed),
             operations |->
                operations \o Shortened(collapsed, trimmed, "remove_trailing_whitespace")]
        Collapsed(collapsed) ==
            Trimmed(Shortened(text, collapsed, "remove_extra_blank_lines"),
                    collapsed, removeTrailingWhitespace(collapsed))
    IN Collapsed(IF options.removeExtraWhitespace THEN collapseBlankLines(text) ELSE text)

Characters == {"a", " ", LineFeed, CarriageReturn}
TextOptionSettings == [{"removeExtraWhitespace"} -> BOOLEAN]

InitText ==
    /\ txPc = "idle"
    /\ \E n \in 1..MaxChars : txContent \in [1..n -> Characters]
    /\ txOptions \in TextOptionSettings
    /\ txOut = None
    /\ IdleBut("text")

\* compressText(content, 'minimal', customOptions)
MinimalTextCall ==
    /\ txPc = "idle"
    /\ txOut' = applyMinimalText(txContent, txOptions)
    /\ txPc' = "returned"
    /\ UNCHANGED <<txContent, txOptions>>
    /\ Frame("text")

NextText == MinimalTextCall
SpecText == InitText /\ [][NextText]_vars

TextReturned == txPc = "returned"

\* three line feeds in a row somewhere in the text
HasBlankLineRun(text) ==
    \E i \in DOMAIN text :
        text[i] = LineFeed /\ At(text, i + 1) = LineFeed /\ At(text, i + 2) = LineFeed

\* C21: after minimal text compression with the default options, whatever
\* the input (CRLF line endings and lines of blanks included), the output
\* holds no run of three or more consecutive line feeds.
C21_NoRunOfThreeNewlines ==
    (TextReturned /\ txOptions.removeExtraWhitespace) => ~HasBlankLineRun(txOut.compressed)


(***************************************************************************)
(* The JavaScript engine (compression/javascript.js): the aggressive tier  *)
(* on code given as the sequence of its lexical tokens.  The code holds no *)
(* comments, console calls, number literals, undefined/Infinity or         *)
(* variable declarations: the steps that look for them (javascript.js:     *)
(* 41-69, 96-109, 166-190, 303-329) find nothing and log nothing.          *)
(***************************************************************************)
MaxBlocks == 3

\* the tokens of s outside the positions removed
Without(s, removed) == AtPositions(s, DOMAIN s \ removed)

\* replace(/\s+/g, ' ').replace(/\s*([{}();,:])\s*/g, '$1').trim()
removeWhitespaceJS(code) ==
    LET Around(s) ==
            Without(s, {i \in DOMAIN s :
                           /\ s[i] \in Whitespace
                           /\ \/ At(s, i - 1) \in {"{", "}", "(", ")", ";", ",", ":"}
                              \/ At(s, i + 1) \in {"{", "}", "(", ")", ";", ",", ":"}})
    IN trim(Around(collapseWhitespace(code)))

\* applyMinimalJSCompression(code, operations, customOptions)
applyMinimalJS(code) ==
    LET Minified(minified) ==
            [compressed |-> minified,
             operations |->
                IF Length(minified) < Length(code)
                THEN <<[type |-> "remove_whitespace",
                        count |-> Length(code) - Length(minified)]>>
                ELSE <<>>]
    IN Minified(removeWhitespaceJS(code))

\* replace(/debugger;?/g, '')
removeDebugger(s) ==
    Without(s, {i \in DOMAIN s :
                   \/ s[i] = "debugger"
                   \/ s[i] = ";" /\ At(s, i - 1) = "debugger"})

JsKeywords ==
    {"if", "while", "for", "with", "switch", "catch", "function", "return", "throw",
     "new", "typeof", "delete", "void", "in", "of"}

\* enhancedWhitespaceRemoval(code): the white space next to brackets goes,
\* a keyword right before "(" gets one blank after it
enhancedWhitespaceRemoval(code) ==
    LET Bare(s) ==
            Without(s, {i \in DOMAIN s :
                           /\ s[i] \in Whitespace
                           /\ \/ At(s, i - 1) \in {"(", ")", "[", "]", "{", "}", ",", "."}
                              \/ At(s, i + 1) \in {"(", ")", "[", "]", "{", "}", ",", "."}})
        \* replace(/\b(if|...|of)\(/g, '$1 ('): position 2i-1 holds token i,
        \* position 2i the blank put after it
        Kept(s) == {p \in 1..(2 * Len(s)) :
                       \/ p % 2 = 1
                       \/ s[p \div 2] \in JsKeywords /\ At(s, (p \div 2) + 1) = "("}
        Spaced(s) ==
            AtPositions([p \in 1..(2 * Len(s)) |->
                            IF p % 2 = 1 THEN s[(p + 1) \div 2] ELSE " "],
                        Kept(s))
    IN trim(collapseWhitespace(Spaced(Bare(code))))

\* optimizeSemicolons(code): replace(/;}/g, '}') and replace(/;{2,}/g, ';')
optimizeSemicolons(code) ==
    LET Closing(s) == Without(s, {i \in DOMAIN s : s[i] = ";" /\ At(s, i + 1) = "}"})
        Single(s) == Without(s, {i \in DOMAIN s : s[i] = ";" /\ At(s, i - 1) = ";"})
    IN Single(Closing(code))

\* replace(/\btrue\b/g, '!0').replace(/\bfalse\b/g, '!1')
shortenBooleans(code) ==
    [i \in DOMAIN code |->
        IF code[i] = "true" THEN "!0" ELSE IF code[i] = "false" THEN "!1" ELSE code[i]]

\* the operation a step pushes when it made the code shorter
ShorterJS(before, after, type) ==
    IF Length(after) < Length(before) THEN <<[type |-> type, count |-> 1]>> ELSE <<>>

\* applyModerateJSCompression(code, operations, customOptions)
applyModerateJS(code) ==
    LET Booleans(operations, before, minified) ==
            [compressed |-> minified,
             operations |-> operations \o ShorterJS(before, minified, "shorten_boolean_literals")]
        Semicolons(operations, before, minified) ==
            Booleans(operations \o ShorterJS(before, minified, "optimize_semicolons"),
                     minified, shortenBooleans(minified))
        Spaces(operations, before, minified) ==
            Semicolons(operations \o ShorterJS(before, minified, "enhanced_whitespace_removal"),
                       minified, optimizeSemicolons(minified))
        Debugger(operations, before, minified) ==
            Spaces(operations \o ShorterJS(before, minified, "remove_debugger"),
                   minified, enhancedWhitespaceRemoval(minified))
        Minimal(minimal) ==
            Debugger(minimal.operations, minimal.compressed,
                     removeDebugger(minimal.compressed))
    IN Minimal(applyMinimalJS(code))

\* the first position from k on that holds "}", or one past the end
CloseBrace(s, k) ==
    IF \E j \in k..Len(s) : s[j] = "}"
    THEN CHOOSE j \in k..Len(s) : s[j] = "}" /\ \A h \in k..(j - 1) : s[h] # "}"
    ELSE Len(s) + 1

\* /if\s*\(\s*(!0|false)\s*\)\s*\{[^}]*\}/ matched at position i: the
\* position of the closing brace, or 0
deadCodePattern(s, i) ==
    LET Brace(open) ==
            IF open # 0 /\ CloseBrace(s, open + 1) <= Len(s)
            THEN CloseBrace(s, open + 1) ELSE 0
        Block(paren) ==
            IF paren # 0 /\ At(s, Skip(s, paren + 1)) = "{"
            THEN Skip(s, paren + 1) ELSE 0
        Guard(literal) ==
            IF At(s, literal) \in {"!0", "false"} /\ At(s, Skip(s, literal + 1)) = ")"
            THEN Skip(s, literal + 1) ELSE 0
        Paren(open) ==
            IF At(s, i) = "if" /\ At(s, open) = "(" THEN Skip(s, open + 1) ELSE 0
    IN Brace(Block(Guard(Paren(Skip(s, i + 1)))))

\* replace(/if\s*\(\s*(!0|false)\s*\)\s*\{[^}]*\}/g, '')
removeDeadCode(s) ==
    Without(s, {j \in DOMAIN s :
                   \E i \in 1..j : deadCodePattern(s, i) # 0 /\ j <= deadCodePattern(s, i)})

\* applyAggressiveJSCompression(code, operations, customOptions)
applyAggressiveJS(code, options) ==
    LET Dead(moderate, minified) ==
            [compressed |-> minified,
             operations |->
                moderate.operations
                \o (IF Length(minified) < Length(moderate.compressed)
                    THEN <<[type |-> "remove_dead_code", count |-> 1]>> ELSE <<>>)]
        Moderate(moderate) ==
            Dead(moderate, IF options.removeDeadCode THEN removeDeadCode(moderate.compressed)
                           ELSE moderate.compressed)
    IN Moderate(applyModerateJS(code))

\* the statements of the code; statement k calls the function named after k
BlockKinds == {"true", "false", "ready", "call", "debugger"}
CallOf(k) == "f" \o Numeral(k)
BlockOf(kind, k) ==
    IF kind = "call" THEN <<CallOf(k), "(", ")", ";">>
    ELSE IF kind = "debugger" THEN <<"debugger", ";", CallOf(k), "(", ")", ";">>
    ELSE <<"if", " ", "(", kind, ")", " ", "{", " ", CallOf(k), "(", ")", ";", " ", "}">>

RECURSIVE Code(_, _)
Code(kinds, k) ==
    IF k > Len(kinds) THEN <<>>
    ELSE BlockOf(kinds[k], k) \o <<NewLine>> \o Code(kinds, k + 1)

JsOptionSettings == [{"removeDeadCode"} -> BOOLEAN]

InitJavaScript ==
    /\ jcPc = "idle"
    /\ \E n \in 1..MaxBlocks : \E kinds \in [1..n -> BlockKinds] : jcContent = Code(kinds, 1)
    /\ jcOptions \in JsOptionSettings
    /\ jcOut = None
    /\ IdleBut("javascript")

\* compressJavaScript(content, 'aggressive', customOptions)
AggressiveJSCall ==
    /\ jcPc = "idle"
    /\ jcOut' = applyAggressiveJS(jcContent, jcOptions)
    /\ jcPc' = "returned"
    /\ UNCHANGED <<jcContent, jcOptions>>
    /\ Frame("javascript")

NextJavaScript == AggressiveJSCall
SpecJavaScript == InitJavaScript /\ [][NextJavaScript]_vars

JavaScriptReturned == jcPc = "returned"

Occurs(s, token) == \E i \in DOMAIN s : s[i] = token

\* the input holds call k inside an if block whose guard is the literal
GuardedBy(s, k, literal) ==
    \E i \in DOMAIN s :
        /\ s[i] = CallOf(k)
        /\ i > 6 /\ s[i - 6] = "(" /\ s[i - 5] = literal /\ s[i - 4] = ")"

\* C22: at the aggressive tier with removeDeadCode set, a statement is gone
\* from the output only if it stood in an if block whose guard is the
\* literal false; in particular the block guarded by the literal true is kept.
C22_OnlyAlwaysFalseBlocksRemoved ==
    (JavaScriptReturned /\ jcOptions.removeDeadCode) =>
        \A k \in 1..MaxBlocks :
            (Occurs(jcContent, CallOf(k)) /\ ~GuardedBy(jcContent, k, "false"))
                => Occurs(jcOut.compressed, CallOf(k))


(***************************************************************************)
(* analyzeFile on the content of a text file: originalSize is the size of  *)
(* the Blob, the entries of the levels come from compressText.  The texts  *)
(* hold no Markdown and the options are the defaults, so of the moderate   *)
(* and aggressive passes (text.js:82-195, 205-243) only normalize_spaces   *)
(* finds something to do.                                                  *)
(***************************************************************************)
MaxTextChars == 4

\* the bytes of a character in UTF-8, as new Blob([content]).size counts them
utf8Length(char) == IF char = "é" THEN 2 ELSE IF char = "€" THEN 3 ELSE 1

RECURSIVE BlobSize(_)
BlobSize(content) ==
    IF content = <<>> THEN 0 ELSE utf8Length(Head(content)) + BlobSize(Tail(content))

\* String.prototype.length: every character of the texts is one UTF-16 unit
StringLength(content) == Len(content)

\* replace(/  +/g, ' ')
normalizeSpaces(text) ==
    AtPositions(text, {i \in DOMAIN text : ~(text[i] = " " /\ At(text, i - 1) = " ")})

\* applyModerateTextCompression(text, operations, customOptions); the
\* aggressive tier adds nothing to it under the default options
applyModerateText(text, options) ==
    LET Spaces(minimal, compressed) ==
            [compressed |-> compressed,
             operations |->
                minimal.operations
                \o (IF Len(compressed) < Len(minimal.compressed)
                    THEN <<[type |-> "normalize_spaces", count |-> 1,
                            reversible |-> FALSE, impact |-> "low"]>>
                    ELSE <<>>)]
        Minimal(minimal) == Spaces(minimal, normalizeSpaces(minimal.compressed))
    IN Minimal(applyMinimalText(text, options))

DefaultTextOptions == [removeExtraWhitespace |-> TRUE]

\* compressText(content, lossLevel, {}): the CompressionResult
CompressionResultOfText(content, level) ==
    LET Result(applied) ==
            [compressed |-> applied.compressed,
             operations |-> applied.operations,
             compressedSize |-> StringLength(applied.compressed)]
    IN Result(IF level = "minimal" THEN applyMinimalText(content, DefaultTextOptions)
              ELSE applyModerateText(content, DefaultTextOptions))

TextCharacters == {"a", " ", "é", "€", LineFeed}

\* analyzeFile(content, 'Text') is entered: originalSize is measured and the
\* first engine call is awaited
AnalyzeTextFileCall ==
    /\ pvPc = "idle"
    /\ \E n \in 1..MaxTextChars : \E content \in [1..n -> TextCharacters] :
          /\ ptContent' = content
          /\ originalSize' = BlobSize(content)
          /\ engineResult' = [l \in LevelSet |-> CompressionResultOfText(content, l)]
    /\ failing' = {}
    /\ results' = <<>>
    /\ levelIdx' = 1
    /\ previewData' = None
    /\ pvPc' = "awaiting"
    /\ UNCHANGED <<enVars, rnVars, cfVars>>
    /\ ExtFrame("previewText")

NextPreviewText == AnalyzeTextFileCall \/ AnalyzeFileLevel
SpecPreviewText == InitPreview /\ [][NextPreviewText]_vars

\* C23: in the result of analyzeFile the reduction of every tier is the one
\* computed from the encoded byte lengths of the content and of the tier's
\* output, so a tier whose output is the content itself has reduction 0,
\* multi-byte characters or not.
C23_ReductionFromByteLengths ==
    (Returned /\ ptContent # <<>>) =>
        \A l \in LevelSet :
            /\ previewData.results[l].reduction =
                  Reduction(BlobSize(ptContent), BlobSize(previewData.results[l].compressed))
            /\ previewData.results[l].compressed = ptContent
                  => previewData.results[l].reduction.num = 0


(***************************************************************************)
(* app.js : analyzeFirstFile, displayPreview, renderConfigUI, the option   *)
(* checkboxes, the comparison cards and compressFiles, followed on the     *)
(* first selected file                                                     *)
(*                                                                         *)
(* The file is a type and a text; the text is what the steps of the        *)
(* type's engine find in it, as in the calls of the engines above: one     *)
(* step finds something, or none.  file.deleted is the number of           *)
(* characters a deletion removes from the text, which is what lets a tier  *)
(* pass the thresholds of the preview.                                     *)
(***************************************************************************)
Deletions == {1, 3, 15, 30}

\* compressionEngines[fileType](content, lossLevel, customOptions)
compressFunc(file, lossLevel, customOptions) ==
    LET Sized(res) ==
            IF res.kind = "thrown"
            THEN res
            ELSE [res EXCEPT !.compressedSize =
                    @ - (file.deleted - 1)
                          * Cardinality({i \in DOMAIN res.compressed :
                                            file.content[res.compressed[i]] = "shrink"})]
    IN  Sized(Compress([format |-> file.format, lossLevel |-> lossLevel,
                        wellFormed |-> file.wellFormed, customOptions |-> customOptions,
                        content |-> file.content]))

\* analyzeFile(content, fileType, customOptions): every tier is tried, a
\* tier that raises gets the failure entry
analyzeFile(file, customOptions) ==
    LET Entry(res) == IF res.kind = "thrown"
                      THEN FailureEntry(ContentLength, res.error)
                      ELSE SuccessEntry(ContentLength, res)
    IN  PreviewResult(ContentLength,
                      [l \in LevelSet |-> Entry(compressFunc(file, l, customOptions))])

\* renderConfigUI(options): every key of the registry that customOptions
\* does not hold gets the registry's default
renderConfigUI(format, customOptions) == customOptions @@ compressionOptions(format)

FlowContents(format) ==
    {<<>>} \cup {ContentOf({c}) : c \in StepChoices(format)}

\* analyzeFirstFile, from the read of the file to the rendered controls;
\* displayPreview selects the recommended tier
AnalyzeFirstFile ==
    /\ flPc = "idle"
    /\ \E format \in Formats :
          \E content \in FlowContents(format), wellFormed \in BOOLEAN :
             \E deleted \in {d \in Deletions :
                               d = 1 \/ \E t \in DOMAIN content : content[t] = "shrink"} :
                /\ Parses(format, wellFormed, {c \in StepChoices(format) : content # <<>>})
                /\ flFile' = [format |-> format, wellFormed |-> wellFormed,
                              content |-> content, deleted |-> deleted]
                /\ flPreview' = analyzeFile(flFile', <<>>)
                /\ flLevel' = flPreview'.recommendation.level
                /\ flCustomOptions' = renderConfigUI(format, <<>>)
    /\ flPc' = "preview"
    /\ flTouched' = FALSE
    /\ UNCHANGED flResult
    /\ Frame("flow")

\* the click on a comparison card; a card marked ineffective ignores it
CardClick ==
    /\ flPc = "preview"
    /\ \E level \in LevelSet :
          /\ flPreview.recommendation.effectiveLevels[level]
          /\ flLevel' = level
    /\ UNCHANGED <<flPc, flFile, flCustomOptions, flPreview, flTouched, flResult>>
    /\ Frame("flow")

\* the change of a checkbox, which starts at the registry's default, and
\* the refreshPreview it runs; one change is followed
CheckboxChange ==
    /\ flPc = "preview"
    /\ ~flTouched
    /\ \E key \in {k \in DOMAIN compressionOptions(flFile.format) :
                      compressionOptions(flFile.format)[k] \in {T, F}} :
          flCustomOptions' =
              WithOption(flCustomOptions, key, IF flCustomOptions[key] = T THEN F ELSE T)
    /\ flPreview' = analyzeFile(flFile, flCustomOptions')
    /\ flLevel' = flPreview'.recommendation.level
    /\ flTouched' = TRUE
    /\ UNCHANGED <<flPc, flFile, flResult>>
    /\ Frame("flow")

\* compressFiles on the first file: the entry pushed onto compressionResults
CompressFirstFile ==
    /\ flPc = "preview"
    /\ LET Entry(res) ==
              IF res.kind = "thrown"
              THEN [error |-> res.error]
              ELSE [compressedContent |-> res.compressed,
                    compressedSize |-> res.compressedSize,
                    compression_level |-> flLevel,
                    operations |-> res.operations,
                    custom_options |-> flCustomOptions]
       IN  flResult' = Entry(compressFunc(flFile, flLevel, flCustomOptions))
    /\ flPc' = "shown"
    /\ UNCHANGED <<flFile, flCustomOptions, flLevel, flPreview, flTouched>>
    /\ Frame("flow")

InitFlow == IdleBut("flow") /\ FlowIdle
NextFlow == AnalyzeFirstFile \/ CardClick \/ CheckboxChange \/ CompressFirstFile
SpecFlow == InitFlow /\ [][NextFlow]_vars

FlowShown == flPc = "shown"

\* C24: when the first file is compressed with no option changed since its
\* preview was displayed, the content compressFiles produces is the content
\* the preview computed for the selected tier
C24_CompressedAsPreviewed ==
    (FlowShown /\ ~flTouched /\ "compressedContent" \in DOMAIN flResult) =>
        /\ "compressed" \in DOMAIN flPreview.results[flLevel]
        /\ flResult.compressedContent = flPreview.results[flLevel].compressed


FlowPreviewed == flPc # "idle"

\* effectiveLevels[level] of the preview on display
FlowEffective(level) == flPreview.recommendation.effectiveLevels[level]

\* the reduction of the aggressive tier on display exceeds 50%
FlowAggressiveStrong == GreaterThan(flPreview.results["aggressive"].reduction, 50)

\* C25 as stated: whenever a tier of the preview is marked effective, the
\* recommended tier, which displayPreview selects, is marked effective
C25_RecommendedIsEffective ==
    (FlowPreviewed /\ \E level \in LevelSet : FlowEffective(level)) =>
        FlowEffective(flPreview.recommendation.level)

\* C25: whenever the minimal or the moderate tier is marked effective, or
\* the aggressive tier reduces by more than 50%, the recommended tier and
\* the selected compression level are marked effective; when the aggressive
\* tier alone is effective with at most 50%, the recommended tier is
\* moderate, which is not effective, and the selected level is it or the
\* aggressive tier
C25_RecommendedEffectiveUnlessOnlyAggressive ==
    FlowPreviewed =>
        /\ (FlowEffective("minimal") \/ FlowEffective("moderate") \/ FlowAggressiveStrong) =>
              /\ FlowEffective(flPreview.recommendation.level)
              /\ FlowEffective(flLevel)
        /\ (/\ FlowEffective("aggressive")
            /\ ~FlowEffective("minimal") /\ ~FlowEffective("moderate")
            /\ ~FlowAggressiveStrong) =>
              /\ flPreview.recommendation.level = "moderate"
              /\ flLevel \in {"moderate", "aggressive"}

\* moderate is recommended by the fallback, and is effective
C25_Witness ==
    /\ flPc = "preview"
    /\ ~FlowEffective("minimal")
    /\ FlowEffective("moderate")
    /\ ~GreaterThan(flPreview.results["moderate"].reduction, 30)
    /\ ~FlowAggressiveStrong
    /\ flPreview.recommendation.level = "moderate"
    /\ flLevel = "moderate"


(***************************************************************************)
(* compression/json.js : shortenKeys on documents that use a short code as *)
(* a key                                                                   *)
(***************************************************************************)
\* "0" is generateShortKey(0)
CodeKeys == {"name", "0"}

\* the members of every object are listed as JavaScript lists them
RECURSIVE InPropertyOrder(_)
InPropertyOrder(obj) ==
    /\ obj.kind = "object" =>
          \A i, j \in DOMAIN obj.items :
             (i < j /\ IsIntegerLike(obj.items[j].key)) =>
                /\ IsIntegerLike(obj.items[i].key)
                /\ DigitOf(obj.items[i].key) < DigitOf(obj.items[j].key)
    /\ \A i \in DOMAIN obj.items :
          InPropertyOrder(IF obj.kind = "object" THEN obj.items[i].value ELSE obj.items[i])

\* documents of up to size values: 1, "x", arrays and objects with the
\* keys name and 0
KeyedDocuments(size) ==
    {d \in UNION {JsonTreesOfSize(n, {JsonNumber(1000), JsonString(FALSE)}, CodeKeys) :
                    n \in 1..size} : InPropertyOrder(d)}

InitJsonKeys ==
    /\ jsPc = "idle"
    /\ jsData \in KeyedDocuments(MaxNodes)
    /\ jsOptions = [k \in JsonOptionKeys |-> TRUE]
    /\ jsOut = None
    /\ IdleBut("json")

\* const keyMap = shortenKeys(data), which rewrites data in place
ShortenKeysCall ==
    JsonReturns("shortenKeys", [data |-> shortenKeys(jsData).data, operations |-> <<>>])

SpecJsonKeys == InitJsonKeys /\ [][ShortenKeysCall]_vars

\* the number of members of all the objects of a value
RECURSIVE MemberCount(_)
MemberCount(obj) ==
    LET Below(i) == MemberCount(IF obj.kind = "object" THEN obj.items[i].value
                                ELSE obj.items[i])
        Sum[k \in 0..Len(obj.items)] == IF k = 0 THEN 0 ELSE Sum[k - 1] + Below(k)
    IN  (IF obj.kind = "object" THEN Len(obj.items) ELSE 0) + Sum[Len(obj.items)]

\* C26: key shortening never merges members: the objects of the output have
\* as many members as the objects of the input (no assignment adds a
\* member, so the totals agree exactly when every object kept its number)
C26_NoMembersMerged ==
    (jsPc = "returned" /\ jsOut.level = "shortenKeys") =>
        MemberCount(jsOut.data) = MemberCount(jsData)


\* the number of fields of an output line: the join of no field is the
\* empty line, which splits into one empty field
FieldCount(fields) == IF fields = <<>> THEN 1 ELSE Len(fields)

\* C27: the header of the output has as many fields as every data row of
\* the output; a column dropped from the rows is dropped from the header
C27_HeaderMatchesRows ==
    CsvReturned =>
        \A i \in DOMAIN csOut.dataLines :
            FieldCount(csOut.dataLines[i]) = FieldCount(csOut.header)


(***************************************************************************)
(* compression/sql.js : the alias shortening of the moderate tier          *)
(*                                                                         *)
(* A query is the sequence of its lexical tokens: words, blanks, dots,     *)
(* commas and the semicolon.  A word is matched by \bword\b exactly where  *)
(* it is a token.                                                          *)
(***************************************************************************)
MaxAliases == 3

\* [a-zA-Z_][a-zA-Z0-9_]* on a token
IsWord(token) == token \notin (Whitespace \cup Delimiters \cup {".", ""})

\* AS under the i flag
IsAs(token) == token \in {"AS", "as", "As", "aS"}

\* /\s+AS\s+([a-zA-Z_][a-zA-Z0-9_]*)/gi matches with token i as its AS:
\* blanks before it, blanks after it, and a word behind those
AliasMatches(s, i) ==
    /\ IsAs(s[i])
    /\ At(s, i - 1) \in Whitespace
    /\ At(s, i + 1) \in Whitespace
    /\ IsWord(At(s, Skip(s, i + 1)))

\* match[1] of every match, in the order of the matches
declaredAliases(s) ==
    LET matches == AtPositions([i \in DOMAIN s |-> i], {i \in DOMAIN s : AliasMatches(s, i)})
    IN  [k \in DOMAIN matches |-> s[Skip(s, matches[k] + 1)]]

\* the keys of aliasMap in insertion order: the first occurrence of every
\* alias of more than two characters; the k-th of them maps to
\* getShortAlias(k - 1)
mappedAliases(s) ==
    LET Mapped(declared) ==
            AtPositions(declared,
                        {k \in DOMAIN declared :
                            /\ Len(declared[k]) > 2
                            /\ \A h \in 1..(k - 1) : declared[h] # declared[k]})
    IN  Mapped(declaredAliases(s))

\* compressed.replace(new RegExp(`\\b${longAlias}\\b`, 'g'), shortAlias)
replaceAlias(s, longAlias, shortAlias) ==
    [i \in DOMAIN s |-> IF s[i] = longAlias THEN shortAlias ELSE s[i]]

\* aliasMap.forEach: one replacement after the other, from entry k on
RECURSIVE replaceAliases(_, _, _)
replaceAliases(s, mapped, k) ==
    IF k > Len(mapped) THEN s
    ELSE replaceAliases(replaceAlias(s, mapped[k], getShortAlias(k - 1)), mapped, k + 1)

\* the shorten_aliases step of applyModerateSQLCompression
shortenAliases(s, options) ==
    LET Shortened(mapped) ==
            [compressed |-> replaceAliases(s, mapped, 1),
             operations |-> IF Len(mapped) > 0
                            THEN <<[type |-> "shorten_aliases", count |-> Len(mapped),
                                    reversible |-> FALSE, impact |-> "medium"]>>
                            ELSE <<>>]
    IN  IF options.shortenAliases
        THEN Shortened(mappedAliases(s))
        ELSE [compressed |-> s, operations |-> <<>>]

\* ---- the queries and option settings of the calls ----
AliasNames == {"usr", "acc", "a", "b", "ab"}

\* a.x, b.x, ... and t1 AS a, t2 AS b, ...
RECURSIVE SelectList(_, _), FromList(_, _, _)
SelectList(aliases, k) ==
    IF k > Len(aliases) THEN <<>>
    ELSE (IF k > 1 THEN <<",", " ">> ELSE <<>>) \o <<aliases[k], ".", "x">>
            \o SelectList(aliases, k + 1)

FromList(aliases, as, k) ==
    IF k > Len(aliases) THEN <<>>
    ELSE (IF k > 1 THEN <<",", " ">> ELSE <<>>)
            \o <<"t" \o Numeral(k), " ", as, " ", aliases[k]>>
            \o FromList(aliases, as, k + 1)

\* SELECT a.x, b.x FROM t1 AS a, t2 AS b;
Query(aliases, as) ==
    <<"select", " ">> \o SelectList(aliases, 1) \o <<" ", "from", " ">>
        \o FromList(aliases, as, 1) \o <<";">>

InitSqlAliases ==
    /\ sqPc = "idle"
    /\ \E n \in 1..MaxAliases, as \in {"AS", "as"} :
         \E aliases \in KeySequences(AliasNames, n) : sqContent = Query(aliases, as)
    /\ sqOptions \in [{"shortenAliases"} -> BOOLEAN]
    /\ sqOut = None
    /\ IdleBut("sql")

\* applyModerateSQLCompression reaches the shortening of the aliases
ShortenAliasesCall ==
    /\ sqPc = "idle"
    /\ sqOut' = shortenAliases(sqContent, sqOptions)
    /\ sqPc' = "returned"
    /\ UNCHANGED <<sqContent, sqOptions>>
    /\ Frame("sql")

SpecSqlAliases == InitSqlAliases /\ [][ShortenAliasesCall]_vars

\* C28: after alias shortening the aliases of two characters or fewer are
\* as they were, and any two words that were distinct in the input are
\* distinct in the output: no generated name equals a word of the text
C28_AliasesStayDistinct ==
    SqlReturned =>
        /\ \A i \in DOMAIN sqContent :
              (IsWord(sqContent[i]) /\ Len(sqContent[i]) <= 2) =>
                  sqOut.compressed[i] = sqContent[i]
        /\ \A i, j \in DOMAIN sqContent :
              (IsWord(sqContent[i]) /\ IsWord(sqContent[j]) /\ sqContent[i] # sqContent[j]) =>
                  sqOut.compressed[i] # sqOut.compressed[j]


(***************************************************************************)
(* app.js : addFiles, removeFile and analyzeFirstFile, whose runs overlap  *)
(* at await file.text()                                                    *)
(*                                                                         *)
(* A file is its name and extension; its text is identified by the file.   *)
(* A run of analyzeFirstFile is [pc, file, content, type]: the file it     *)
(* took from selectedFiles[0], and, once it has called analyzeFile, the    *)
(* two arguments of the call.                                              *)
(***************************************************************************)
MaxRuns == 2

typeMap == [json |-> "JSON", csv |-> "CSV", js |-> "JavaScript", txt |-> "Text"]

\* typeMap[ext] || 'Text'
detectFileType(file) == IF file.ext \in DOMAIN typeMap THEN typeMap[file.ext] ELSE "Text"

AnalysisFiles ==
    {[name |-> "a", ext |-> "json"], [name |-> "b", ext |-> "csv"],
     [name |-> "c", ext |-> "json"]}

NoText == ""

\* analyzeFirstFile up to its await file.text(): the globals it writes and
\* the run it leaves waiting; with no file selected it returns at once
AnalyzeFirstFileStart(selected) ==
    IF selected = <<>>
    THEN UNCHANGED <<azIndex, azType, azRuns>>
    ELSE /\ Len(azRuns) < MaxRuns
         /\ azIndex' = 0
         /\ azType' = detectFileType(selected[1])
         /\ azRuns' = Append(azRuns, [pc |-> "reading", file |-> selected[1],
                                      content |-> NoText, type |-> NoText])

\* addFiles(files) with at least one file, up to the await in analyzeFirstFile
AddFilesCall ==
    /\ \E n \in 1..Cardinality(AnalysisFiles) :
          \E files \in KeySequences(AnalysisFiles \ RangeOf(azSelected), n) :
             azSelected' = azSelected \o files
    /\ AnalyzeFirstFileStart(azSelected')
    /\ UNCHANGED azContent
    /\ Frame("analysis")

\* removeFile(index): the file is spliced out; if files remain and the one
\* removed was the analysed one, analyzeFirstFile is called (and not awaited)
RemoveFileCall ==
    /\ \E index \in 0..(Len(azSelected) - 1) :
          /\ azSelected' = Pick(azSelected, DOMAIN azSelected \ {index + 1})
          /\ IF azSelected' # <<>> /\ index = azIndex
             THEN AnalyzeFirstFileStart(azSelected')
             ELSE UNCHANGED <<azIndex, azType, azRuns>>
    /\ UNCHANGED azContent
    /\ Frame("analysis")

\* await file.text() of a waiting run resolves: currentFileContent is
\* assigned and analyzeFile is called with the two globals
FileTextResolves ==
    /\ \E r \in DOMAIN azRuns :
          /\ azRuns[r].pc = "reading"
          /\ azContent' = azRuns[r].file
          /\ azRuns' = [azRuns EXCEPT ![r] = [pc |-> "called", file |-> @.file,
                                              content |-> azContent', type |-> azType]]
    /\ UNCHANGED <<azSelected, azIndex, azType>>
    /\ Frame("analysis")

\* await file.text() of a waiting run rejects: the catch block, no call
FileTextRejects ==
    /\ \E r \in DOMAIN azRuns :
          /\ azRuns[r].pc = "reading"
          /\ azRuns' = [azRuns EXCEPT ![r].pc = "failed"]
    /\ UNCHANGED <<azSelected, azIndex, azType, azContent>>
    /\ Frame("analysis")

InitAnalysis == IdleBut("analysis") /\ AnalysisIdle
NextAnalysis == AddFilesCall \/ RemoveFileCall \/ FileTextResolves \/ FileTextRejects
SpecAnalysis == InitAnalysis /\ [][NextAnalysis]_vars

\* C29: under every interleaving of the runs, analyzeFile is only called
\* with a content and a file type of one and the same file
C29_ContentAndTypeOfOneFile ==
    \A r \in DOMAIN azRuns :
        azRuns[r].pc = "called" => azRuns[r].type = detectFileType(azRuns[r].content)


(***************************************************************************)
(* app.js : compressFiles started again while a run of it is waiting       *)
(*                                                                         *)
(* The click listener of compressBtn calls compressFiles whatever runs are *)
(* under way.  Every run has its own loop index and file; all of them      *)
(* share compressionResults.  A run also records whether, at its click, an *)
(* earlier run was waiting for a file read.                                *)
(***************************************************************************)
MaxClicks == 2

\* the selections of up to n files with distinct names
BatchSelections(n) ==
    {s \in Selections(n) : \A i, j \in DOMAIN s : i # j => s[i].name # s[j].name}

\* the loop of a run at its next await, or past its end
RunAt(next, overlaps) ==
    [pc |-> next.pc, i |-> next.i,
     file |-> IF next.pc = "reading" THEN btSelected[next.i] ELSE None,
     overlaps |-> overlaps]

\* a click on compressBtn: compressionResults is emptied and the loop of
\* the new run goes up to its first await
CompressClick ==
    /\ Len(btRuns) < MaxClicks
    /\ btResults' = <<>>
    /\ btRuns' = Append(btRuns, RunAt(NextIteration(0, Len(btSelected)),
                                      \E r \in DOMAIN btRuns : btRuns[r].pc = "reading"))
    /\ UNCHANGED <<btSelected, btLevel>>
    /\ Frame("batch")

\* await file.text() of a run settles: a rejection or a missing engine goes
\* to the catch block, otherwise the engine is called and awaited
RunFileTextSettles ==
    /\ \E r \in DOMAIN btRuns :
          /\ btRuns[r].pc = "reading"
          /\ IF btRuns[r].file.fate \in {"read", "type"}
             THEN /\ btResults' = Append(btResults, ErrorEntry(btRuns[r].file))
                  /\ btRuns' = [btRuns EXCEPT
                                  ![r] = RunAt(AfterCatch(@.i, Len(btSelected)), @.overlaps)]
             ELSE /\ btRuns' = [btRuns EXCEPT ![r].pc = "compressing"]
                  /\ UNCHANGED btResults
    /\ UNCHANGED <<btSelected, btLevel>>
    /\ Frame("batch")

\* await compressFunc(content, compressionLevel, customOptions) of a run
\* settles
RunEngineSettles ==
    /\ \E r \in DOMAIN btRuns :
          /\ btRuns[r].pc = "compressing"
          /\ IF btRuns[r].file.fate = "engine"
             THEN /\ btResults' = Append(btResults, ErrorEntry(btRuns[r].file))
                  /\ btRuns' = [btRuns EXCEPT
                                  ![r] = RunAt(AfterCatch(@.i, Len(btSelected)), @.overlaps)]
             ELSE /\ btResults' = Append(btResults, ResultEntry(btRuns[r].file, btLevel))
                  /\ btRuns' = [btRuns EXCEPT
                                  ![r] = RunAt(NextIteration(@.i, Len(btSelected)), @.overlaps)]
    /\ UNCHANGED <<btSelected, btLevel>>
    /\ Frame("batch")

InitBatch ==
    /\ IdleBut("batch")
    /\ btSelected \in BatchSelections(MaxFiles)
    /\ btLevel \in LevelSet
    /\ btResults = <<>>
    /\ btRuns = <<>>

NextBatch == CompressClick \/ RunFileTextSettles \/ RunEngineSettles
SpecBatch == InitBatch /\ [][NextBatch]_vars

\* every run started has reached showResults
BatchFinished == btRuns # <<>> /\ \A r \in DOMAIN btRuns : btRuns[r].pc = "results"

\* a run was started while an earlier one was waiting for a file read
BatchOverlapped == \E r \in DOMAIN btRuns : btRuns[r].overlaps

\* C30: when compressFiles was started again during a run and all runs
\* have finished, compressionResults holds one entry per selected file, in
\* selection order
C30_OneEntryPerFileAfterOverlap ==
    (BatchFinished /\ BatchOverlapped) =>
        /\ Len(btResults) = Len(btSelected)
        /\ \A i \in DOMAIN btSelected : btResults[i].originalName = btSelected[i].name

====
